---------------------------- MODULE Spec2Model ----------------------------
(***************************************************************************)
(* Crystal Archive: the codecs of src/src/crystal_archive and the          *)
(* encode/decode pipeline that composes them.                              *)
(*                                                                         *)
(* Every component is a variable holding the component's fields and the    *)
(* position of the caller driving it ("pc").  There is one specification   *)
(* per component; a component that a specification does not drive stays    *)
(* Idle.                                                                   *)
(*                                                                         *)
(* Conventions: numpy arrays and Python bytes are sequences (1-based here, *)
(* 0-based in the source: index j of the source is j+1 in the model); bits *)
(* are 0/1; bytes are 0..255.                                              *)
(***************************************************************************)
EXTENDS Integers, Sequences, FiniteSets, TLC

VARIABLES ldpc, ilv, vox, merkle, mani, pack, pipe

vars == <<ldpc, ilv, vox, merkle, mani, pack, pipe>>

Idle == [pc |-> "idle"]

Bit == {0, 1}

RECURSIVE SumTo(_, _)
SumTo(s, n) == IF n = 0 THEN 0 ELSE s[n] + SumTo(s, n - 1)

\* np.sum of an array.
SumSeq(s) == SumTo(s, Len(s))

Min(a, b) == IF a <= b THEN a ELSE b

BitVectors(n) == [1..n -> Bit]

\* The array with entries f[1..n], as a sequence value.
Arr(f, n) == SubSeq(f, 1, n)

(***************************************************************************)
(* codecs/ecc_ldpc.py: SimpleLDPC                                          *)
(***************************************************************************)

\* _generate_parity_matrix: np.random.seed(42), then for each column i the
\* rows np.random.choice(m, 3, replace=False) are set.  The generator is
\* numpy's legacy MT19937 stream, so H is a fixed function of (n, k); the
\* tables are that stream's output for the codecs the model constructs
\* (m = n - k rows, n columns).
GenerateParityMatrix(n, k) ==
    CASE n = 6 /\ k = 3 ->
           << <<1, 1, 1, 1, 1, 1>>,
              <<1, 1, 1, 1, 1, 1>>,
              <<1, 1, 1, 1, 1, 1>> >>
      [] n = 7 /\ k = 3 ->
           << <<1, 1, 1, 1, 1, 1, 0>>,
              <<1, 1, 1, 1, 1, 1, 1>>,
              <<0, 0, 0, 0, 1, 1, 1>>,
              <<1, 1, 1, 1, 0, 0, 1>> >>
      [] n = 8 /\ k = 4 ->
           << <<1, 1, 1, 1, 1, 1, 0, 1>>,
              <<1, 1, 1, 1, 1, 1, 1, 1>>,
              <<0, 0, 0, 0, 1, 1, 1, 1>>,
              <<1, 1, 1, 1, 0, 0, 1, 0>> >>
      [] n = 16 /\ k = 12 ->
           << <<1, 1, 1, 1, 1, 1, 0, 1, 1, 1, 0, 1, 1, 1, 1, 1>>,
              <<1, 1, 1, 1, 1, 1, 1, 1, 0, 1, 1, 1, 0, 0, 1, 1>>,
              <<0, 0, 0, 0, 1, 1, 1, 1, 1, 1, 1, 0, 1, 1, 0, 1>>,
              <<1, 1, 1, 1, 0, 0, 1, 0, 1, 0, 1, 1, 1, 1, 1, 0>> >>
      [] n = 16 /\ k = 13 ->
           << <<1, 1, 1, 1, 1, 1, 1, 1, 1, 1, 1, 1, 1, 1, 1, 1>>,
              <<1, 1, 1, 1, 1, 1, 1, 1, 1, 1, 1, 1, 1, 1, 1, 1>>,
              <<1, 1, 1, 1, 1, 1, 1, 1, 1, 1, 1, 1, 1, 1, 1, 1>> >>

\* The (n, k) pairs the LDPC specification constructs codecs for.
LdpcCodecs == { <<6, 3>>, <<7, 3>>, <<8, 4>> }

\* syndrome = (H @ codeword) % 2
Syndrome(H, c) ==
    Arr([i \in 1..Len(H) |->
           SumSeq(Arr([j \in 1..Len(c) |-> H[i][j] * c[j]], Len(c))) % 2], Len(H))

\* SimpleLDPC.encode: codeword[:k] = data_bits;
\* parity[i] = sum(data_bits * H[i, :k]) % 2; codeword[k:] = parity.
LdpcEncode(H, k, data) ==
    LET n == Len(H[1])
        parity == Arr([i \in 1..Len(H) |->
                         SumSeq(Arr([j \in 1..k |-> data[j] * H[i][j]], k)) % 2],
                      Len(H))
    IN  Arr([j \in 1..n |-> IF j <= k THEN data[j] ELSE parity[j - k]], n)

\* unsatisfied[i] = sum(H[:, i] * syndrome)
Unsatisfied(H, s) ==
    Arr([j \in 1..Len(H[1]) |->
           SumSeq(Arr([i \in 1..Len(H) |-> H[i][j] * s[i]], Len(H)))], Len(H[1]))

\* np.argmax: the first index holding the maximum.
ArgMax(u) ==
    CHOOSE j \in 1..Len(u) :
        /\ \A l \in 1..Len(u) : u[l] <= u[j]
        /\ \A l \in 1..(j - 1) : u[l] < u[j]

FlipBit(c, j) == Arr([c EXCEPT ![j] = 1 - c[j]], Len(c))

\* SimpleLDPC.decode_hard: the loop body run `left` more times on codeword c;
\* `flips` counts the bits flipped so far.
RECURSIVE DecodeHardLoop(_, _, _, _, _)
DecodeHardLoop(H, k, c, left, flips) ==
    IF left = 0
    THEN [bits |-> SubSeq(c, 1, k), success |-> FALSE, word |-> c, flips |-> flips]
    ELSE LET s == Syndrome(H, c)
         IN  IF SumSeq(s) = 0
             THEN [bits |-> SubSeq(c, 1, k), success |-> TRUE, word |-> c,
                   flips |-> flips]
             ELSE LET u == Unsatisfied(H, s)
                      f == ArgMax(u)
                  IN  IF u[f] > 0
                      THEN DecodeHardLoop(H, k, FlipBit(c, f), left - 1, flips + 1)
                      ELSE DecodeHardLoop(H, k, c, left - 1, flips)

DecodeHard(H, k, received, max_iter) == DecodeHardLoop(H, k, received, max_iter, 0)

\* decode_hard's default max_iter.
DefaultMaxIter == 50

\* The max_iter values a caller passes in the model.
MaxIterChoices == {1, 2, DefaultMaxIter}

\* Bits the channel may flip in one codeword before it is decoded.
MaxFlips == 1

\* SimpleLDPC.__init__: n, k, m and H of a constructed codec.
LdpcNew(n, k) ==
    [pc |-> "new", n |-> n, k |-> k, m |-> n - k, H |-> GenerateParityMatrix(n, k),
     data |-> <<>>, codeword |-> <<>>, received |-> <<>>, flipped |-> {},
     max_iter |-> 0, decoded |-> <<>>, success |-> FALSE, word |-> <<>>, nflips |-> 0]

InitLDPC ==
    /\ ldpc \in { LdpcNew(c[1], c[2]) : c \in LdpcCodecs }
    /\ ilv = Idle /\ vox = Idle /\ merkle = Idle /\ mani = Idle
    /\ pack = Idle /\ pipe = Idle

\* A caller encodes k information bits.
Encode ==
    /\ ldpc.pc = "new"
    /\ \E data \in BitVectors(ldpc.k) :
         LET cw == LdpcEncode(ldpc.H, ldpc.k, data)
         IN  ldpc' = [ldpc EXCEPT !.pc = "sent", !.data = data, !.codeword = cw,
                                  !.received = cw]
    /\ UNCHANGED <<ilv, vox, merkle, mani, pack, pipe>>

\* The channel flips one more bit of the word in flight.
ChannelFlip ==
    /\ ldpc.pc = "sent"
    /\ Cardinality(ldpc.flipped) < MaxFlips
    /\ \E j \in (1..ldpc.n) \ ldpc.flipped :
         ldpc' = [ldpc EXCEPT !.received = FlipBit(ldpc.received, j),
                              !.flipped = ldpc.flipped \cup {j}]
    /\ UNCHANGED <<ilv, vox, merkle, mani, pack, pipe>>

\* A caller runs decode_hard on the received word.
DecodeHardCall ==
    /\ ldpc.pc = "sent"
    /\ \E mi \in MaxIterChoices :
         LET r == DecodeHard(ldpc.H, ldpc.k, ldpc.received, mi)
         IN  ldpc' = [ldpc EXCEPT !.pc = "decoded", !.max_iter = mi,
                                  !.decoded = r.bits, !.success = r.success,
                                  !.word = r.word, !.nflips = r.flips]
    /\ UNCHANGED <<ilv, vox, merkle, mani, pack, pipe>>

NextLDPC == Encode \/ ChannelFlip \/ DecodeHardCall

SpecLDPC == InitLDPC /\ [][NextLDPC]_vars

\* C3: LDPC clean round trip.  For every codec and every k information bits b,
\* decode_hard (default max_iter) of the untouched encode(b) returns (b, TRUE).
C3_CleanRoundTrip ==
    (ldpc.pc = "decoded" /\ ldpc.flipped = {} /\ ldpc.max_iter = DefaultMaxIter)
        => (ldpc.decoded = ldpc.data /\ ldpc.success)

\* C3, second form: every codeword encode produces has zero syndrome under the
\* codec's own H.
C3_ZeroSyndrome ==
    (ldpc.pc = "sent" /\ ldpc.flipped = {})
        => SumSeq(Syndrome(ldpc.H, ldpc.codeword)) = 0

\* C4: LDPC single-error correction.  For every b and every position j,
\* decode_hard (default max_iter) of encode(b) with bit j flipped returns
\* (b, TRUE).
C4_SingleErrorCorrected ==
    (ldpc.pc = "decoded" /\ Cardinality(ldpc.flipped) = 1
      /\ ldpc.max_iter = DefaultMaxIter)
        => (ldpc.decoded = ldpc.data /\ ldpc.success)

(***************************************************************************)
(* codecs/interleave.py: Interleaver                                       *)
(*                                                                         *)
(* np.random.default_rng(seed) is a deterministic generator: the values it *)
(* yields are a fixed stream that only the seed decides.  The stream is    *)
(* not computed here; it is an arbitrary sequence of raw values, revealed  *)
(* one value at a time as a generator first reaches each position and      *)
(* replayed from the record by any generator that reaches the position     *)
(* again.  `pos` is the position of the instance's own generator.          *)
(***************************************************************************)

\* Longest vector handed to the interleaver.
MaxLen == 3

\* Raw values of the stream: enough for every residue of every draw bound.
RawValues == 0..(MaxLen - 1)

\* Raw values one instance may consume (two calls on vectors of length 3).
StreamCap == MaxLen + 1

\* Seeds an Interleaver is constructed with (the default one: the stream a seed
\* yields is arbitrary, so one label stands for every seed).
Seeds == {42}

\* rng.permutation(N) needs N - 1 bounded draws.
DrawsFor(N) == IF N = 0 THEN 0 ELSE N - 1

Swap(a, i, j) == [a EXCEPT ![i] = a[j], ![j] = a[i]]

\* Generator.permutation: arange(N) shuffled in place; for i = N-1 down to 1,
\* j = random_interval(i) (a value in 0..i) and entries i, j are swapped.
\* `raw` holds the stream values the draws consume, in order.
RECURSIVE ShuffleFrom(_, _, _, _)
ShuffleFrom(a, i, raw, t) ==
    IF i < 1 THEN a
    ELSE ShuffleFrom(Swap(a, i + 1, (raw[t] % (i + 1)) + 1), i - 1, raw, t + 1)

\* The permutation of [0, N) as the array of its entries.
Permutation(N, raw) ==
    IF N = 0 THEN <<>> ELSE Arr(ShuffleFrom([i \in 1..N |-> i - 1], N - 1, raw, 1), N)

\* data[idx] for an index array idx (numpy fancy indexing).
Take(data, idx) == Arr([i \in 1..Len(idx) |-> data[idx[i] + 1]], Len(idx))

\* block_interleave's result for the permutation drawn.
BlockInterleave(data, perm) == [interleaved |-> Take(data, perm), perm |-> perm]

\* inv_perm = np.empty_like(perm); inv_perm[perm] = np.arange(len(perm)):
\* the last write to an entry wins; an entry never written keeps what the
\* uninitialised buffer held (g).
InversePermutation(perm, g) ==
    Arr([i \in 1..Len(perm) |->
           IF \E j \in 1..Len(perm) : perm[j] = i - 1
           THEN (CHOOSE j \in 1..Len(perm) :
                    perm[j] = i - 1 /\ \A l \in (j + 1)..Len(perm) : perm[l] # i - 1) - 1
           ELSE g], Len(perm))

\* block_deinterleave with the permutation applied the wrong way round.
BlockDeinterleaveForward(data, perm, g) == Take(data, perm)

\* block_deinterleave: data[inv_perm].
BlockDeinterleave(data, perm, g) == Take(data, InversePermutation(perm, g))

\* Interleaver.__init__
IlvNew(seed) ==
    [pc |-> "new", seed |-> seed, pos |-> 0, stream |-> <<>>, data |-> <<>>,
     interleaved |-> <<>>, perm |-> <<>>, restored |-> <<>>, calls |-> 0]

InitIlv ==
    /\ ilv \in { IlvNew(sd) : sd \in Seeds }
    /\ ldpc = Idle /\ vox = Idle /\ merkle = Idle /\ mani = Idle
    /\ pack = Idle /\ pipe = Idle

\* Sequences of raw values of length d.
RawSeqs(d) == [1..d -> RawValues]

\* A caller interleaves a vector: self.rng draws the permutation.
BlockInterleaveCall ==
    /\ ilv.pc \in {"new", "interleaved", "restored"}
    /\ \E N \in 0..MaxLen :
         /\ ilv.pos + DrawsFor(N) <= StreamCap
         /\ \E data \in BitVectors(N), raw \in RawSeqs(DrawsFor(N)) :
              LET r == BlockInterleave(data, Permutation(N, raw))
              IN  ilv' = [ilv EXCEPT !.pc = "interleaved", !.data = data,
                                     !.interleaved = r.interleaved, !.perm = r.perm,
                                     !.restored = <<>>,
                                     !.stream = ilv.stream \o raw,
                                     !.pos = ilv.pos + DrawsFor(N),
                                     !.calls = Min(ilv.calls + 1, 2)]
    /\ UNCHANGED <<ldpc, vox, merkle, mani, pack, pipe>>

\* A caller deinterleaves with the permutation block_interleave returned.
BlockDeinterleaveCall ==
    /\ ilv.pc = "interleaved"
    /\ \E g \in 0..(MaxLen - 1) :
         ilv' = [ilv EXCEPT !.pc = "restored",
                            !.restored = BlockDeinterleave(ilv.interleaved, ilv.perm, g)]
    /\ UNCHANGED <<ldpc, vox, merkle, mani, pack, pipe>>

NextIlv == BlockInterleaveCall \/ BlockDeinterleaveCall

SpecIlv == InitIlv /\ [][NextIlv]_vars

IsBijection(perm, N) ==
    /\ Len(perm) = N
    /\ \A i \in 0..(N - 1) : Cardinality({j \in 1..N : perm[j] = i}) = 1

\* C5: interleave round trip.  For every seed, every vector x (the empty one
\* included) and every call of block_interleave, the permutation returned is a
\* bijection on [0, len(x)), the interleaved vector is x[perm], and
\* block_deinterleave(interleaved, perm) is x.
C5_InterleaveRoundTrip ==
    /\ ilv.pc \in {"interleaved", "restored"} =>
         /\ IsBijection(ilv.perm, Len(ilv.data))
         /\ Len(ilv.interleaved) = Len(ilv.data)
         /\ \A i \in 1..Len(ilv.data) : ilv.interleaved[i] = ilv.data[ilv.perm[i] + 1]
    /\ ilv.pc = "restored" => ilv.restored = ilv.data

\* C5 witness: a second call on the same instance interleaved a vector of the
\* longest length with a permutation that is not its own inverse, and the
\* vector, which the permutation moved, was restored.
C5_Witness ==
    /\ ilv.pc = "restored"
    /\ ilv.calls = 2
    /\ Len(ilv.data) = MaxLen
    /\ ilv.interleaved # ilv.data
    /\ Take(ilv.perm, ilv.perm) # [i \in 1..MaxLen |-> i - 1]
    /\ ilv.restored = ilv.data

\* C5 witness: the empty vector went through interleave and deinterleave.
C5_WitnessEmpty ==
    ilv.pc = "restored" /\ ilv.data = <<>> /\ ilv.perm = <<>> /\ ilv.restored = <<>>

(***************************************************************************)
(* mapping/voxel_map.py: VoxelMapper                                       *)
(*                                                                         *)
(* Angles are in tenths of a degree (22.5 degrees is 225), retardances in  *)
(* hundredths of a wavelength (0.25 is 25).                                *)
(***************************************************************************)

VoxelModes == {"3bit", "5bit"}

\* VoxelMapper.__init__
BitsPerVoxel(mode) == IF mode = "3bit" THEN 3 ELSE 5
Orientations(mode) == IF mode = "3bit" THEN 4 ELSE 8
RetardanceLevels(mode) == IF mode = "3bit" THEN 2 ELSE 4
NumSymbols(mode) == IF mode = "3bit" THEN 8 ELSE 32

RECURSIVE Pow2(_)
Pow2(e) == IF e = 0 THEN 1 ELSE 2 * Pow2(e - 1)

\* (v >> sh) & 1
BitAt(v, sh) == (v \div Pow2(sh)) % 2

\* i ^ (i >> 1) on 5-bit values
BinaryGray(i) ==
    LET j == i \div 2
    IN  SumSeq([t \in 1..5 |-> Pow2(t - 1) * ((BitAt(i, t - 1) + BitAt(j, t - 1)) % 2)])

\* _generate_gray_codes: the table kept in self.gray_codes (index -> code).
GenerateGrayCodes(mode) ==
    IF mode = "3bit"
    THEN [i \in 0..7 |-> <<0, 1, 3, 2, 6, 7, 5, 4>>[i + 1]]
    ELSE [i \in 0..31 |-> BinaryGray(i)]

AnglesOf(mode) ==
    IF mode = "3bit" THEN <<0, 450, 900, 1350>>
    ELSE [i \in 1..8 |-> (i - 1) * 225]

RetardancesOf(mode) ==
    IF mode = "3bit" THEN <<25, 75>> ELSE <<25, 50, 75, 100>>

\* _build_symbol_table: symbol -> (angle, retardance), with
\* angle_idx = symbol % orientations and retard_idx = symbol // orientations.
BuildSymbolTable(mode) ==
    [symbol \in 0..(NumSymbols(mode) - 1) |->
        <<AnglesOf(mode)[(symbol % Orientations(mode)) + 1],
          RetardancesOf(mode)[(symbol \div Orientations(mode)) + 1]>>]

\* padding = (bits_per_voxel - len(bits) % bits_per_voxel) % bits_per_voxel
Padding(b, len) == (b - (len % b)) % b

\* bits_to_symbols: zero-pad to a multiple of b, then each chunk of b bits is a
\* symbol, first bit most significant.
BitsToSymbols(b, bits) ==
    LET padded == bits \o [i \in 1..Padding(b, Len(bits)) |-> 0]
        n == Len(padded) \div b
    IN  Arr([s \in 1..n |->
               SumSeq([j \in 1..b |-> padded[(s - 1) * b + j] * Pow2(b - j)])], n)

\* symbols_to_bits: b bits per symbol, most significant first.
SymbolsToBits(b, symbols) ==
    Arr([i \in 1..(Len(symbols) * b) |->
           BitAt(symbols[((i - 1) \div b) + 1], b - 1 - ((i - 1) % b))],
        Len(symbols) * b)

\* symbols_to_voxels: the table entry of each symbol (entry 0 for a symbol
\* outside the table).
SymbolsToVoxels(mode, symbols) ==
    LET table == BuildSymbolTable(mode)
        entry(sy) == IF sy \in DOMAIN table THEN table[sy] ELSE table[0]
    IN  [angles |-> Arr([i \in 1..Len(symbols) |-> entry(symbols[i])[1]], Len(symbols)),
         retardances |-> Arr([i \in 1..Len(symbols) |-> entry(symbols[i])[2]],
                             Len(symbols))]

\* Manifest.set_voxel_mapping as encode_folder calls it: what the manifest
\* records about the voxel stage.
VoxelRecord(mode) ==
    [mode |-> mode, bits_per_voxel |-> BitsPerVoxel(mode),
     orientations |-> Orientations(mode),
     retardance_levels |-> RetardanceLevels(mode), gray_codes |-> <<>>]

\* Longest bit vector handed to bits_to_symbols.
MaxBits == 6

\* VoxelMapper.__init__
VoxNew(mode) ==
    [pc |-> "new", mode |-> mode, bits |-> <<>>, symbols |-> <<>>,
     record |-> <<>>, demapped |-> <<>>, angles |-> <<>>, retardances |-> <<>>]

InitVox ==
    /\ vox \in { VoxNew(mode) : mode \in VoxelModes }
    /\ ldpc = Idle /\ ilv = Idle /\ merkle = Idle /\ mani = Idle
    /\ pack = Idle /\ pipe = Idle

\* encode_folder, step 6 and the voxel part of step 8: the interleaved bits
\* become symbols and the manifest records the mapping.
MapBits ==
    /\ vox.pc = "new"
    /\ \E N \in 0..MaxBits : \E x \in BitVectors(N) :
         vox' = [vox EXCEPT !.pc = "mapped", !.bits = x,
                            !.symbols = BitsToSymbols(BitsPerVoxel(vox.mode), x),
                            !.record = VoxelRecord(vox.mode)]
    /\ UNCHANGED <<ldpc, ilv, merkle, mani, pack, pipe>>

\* decode_archive, step 2: a mapper built from the manifest's mode turns the
\* stored symbols back into bits.
DemapSymbols ==
    /\ vox.pc = "mapped"
    /\ vox' = [vox EXCEPT !.pc = "demapped",
                          !.demapped = SymbolsToBits(BitsPerVoxel(vox.record.mode),
                                                     vox.symbols)]
    /\ UNCHANGED <<ldpc, ilv, merkle, mani, pack, pipe>>

\* A caller writes two symbols as voxels.
WriteVoxels ==
    /\ vox.pc = "new"
    /\ \E s1, s2 \in 0..(NumSymbols(vox.mode) - 1) :
         LET v == SymbolsToVoxels(vox.mode, <<s1, s2>>)
         IN  vox' = [vox EXCEPT !.pc = "written", !.symbols = <<s1, s2>>,
                                !.angles = v.angles, !.retardances = v.retardances]
    /\ UNCHANGED <<ldpc, ilv, merkle, mani, pack, pipe>>

NextVox == MapBits \/ DemapSymbols \/ WriteVoxels

SpecVox == InitVox /\ [][NextVox]_vars

IsPrefix(x, y) == Len(x) <= Len(y) /\ SubSeq(y, 1, Len(x)) = x

\* C6: bits/symbols round trip modulo the recorded pad.  The decoder's bit
\* vector is the encoder's x: exactly len(x) bits, the pad trimmed by means of
\* the pad length recorded at encode.
C6_RoundTripTrimmed ==
    vox.pc = "demapped" => vox.demapped = vox.bits

\* C6, the part about the mapper alone: symbols_to_bits(bits_to_symbols(x)) is x
\* followed only by zero bits, fewer than b of them.
C6_RoundTripPadded ==
    vox.pc = "demapped" =>
        /\ IsPrefix(vox.bits, vox.demapped)
        /\ Len(vox.demapped) - Len(vox.bits) < BitsPerVoxel(vox.mode)
        /\ \A i \in (Len(vox.bits) + 1)..Len(vox.demapped) : vox.demapped[i] = 0

\* Number of bit positions in which two b-bit symbol values differ.
HammingDistance(b, s1, s2) ==
    Cardinality({t \in 0..(b - 1) : BitAt(s1, t) # BitAt(s2, t)})

Abs(x) == IF x < 0 THEN -x ELSE x

\* Two voxels are nearest neighbours: adjacent orientations (with the wrap from
\* the largest angle to 0) at one retardance, or adjacent retardance levels at
\* one orientation.
NearestNeighbours(mode, a1, r1, a2, r2) ==
    LET astep == 1800 \div Orientations(mode)
        rstep == RetardancesOf(mode)[2] - RetardancesOf(mode)[1]
    IN  \/ r1 = r2 /\ Abs(a1 - a2) \in {astep, 1800 - astep}
        \/ a1 = a2 /\ Abs(r1 - r2) = rstep

\* C10: Gray adjacency.  In both modes, two symbols whose voxels are nearest
\* neighbours differ in exactly one bit.
C10_GrayAdjacency ==
    (vox.pc = "written"
      /\ NearestNeighbours(vox.mode, vox.angles[1], vox.retardances[1],
                           vox.angles[2], vox.retardances[2]))
        => HammingDistance(BitsPerVoxel(vox.mode), vox.symbols[1], vox.symbols[2]) = 1

(***************************************************************************)
(* codecs/hashing.py: MerkleTree                                           *)
(*                                                                         *)
(* SHA-256 is taken as collision-free: the digest of a byte string is the  *)
(* term <<"sha256", string>>.  A byte string is either leaf data           *)
(* <<"data", name>> or the concatenation of digests <<"join", d1, ..>>     *)
(* (digests have one length, so the concatenation determines its parts).   *)
(***************************************************************************)

\* _hash
Hash(bytes) == <<"sha256", bytes>>

\* b"".join(group) for a group of digests
Join(group) == <<"join">> \o group

\* bytes.hex() and bytes.fromhex()
Hex(digest) == <<"hex", digest>>
FromHex(text) == text[2]

Data(name) == <<"data", name>>

\* Number of groups of `fanout` a level of `len` nodes splits into.
Groups(len, fanout) == (len + fanout - 1) \div fanout

\* One step of _build_tree: the next level up.
NextLevel(level, fanout) ==
    Arr([g \in 1..Groups(Len(level), fanout) |->
           Hash(Join(SubSeq(level, (g - 1) * fanout + 1,
                            Min(g * fanout, Len(level)))))],
        Groups(Len(level), fanout))

RECURSIVE BuildUp(_, _)
BuildUp(tree, fanout) ==
    IF Len(tree[Len(tree)]) > 1
    THEN BuildUp(Append(tree, NextLevel(tree[Len(tree)], fanout)), fanout)
    ELSE tree

\* _build_tree: the levels, leaf digests first, root level last.
BuildTree(leaves, fanout) ==
    IF leaves = <<>> THEN <<>>
    ELSE BuildUp(<< Arr([i \in 1..Len(leaves) |-> Hash(leaves[i])], Len(leaves)) >>,
                 fanout)

\* self.root
RootOf(tree) == IF tree = <<>> THEN <<"empty">> ELSE tree[Len(tree)][1]

\* The members of a sequence at the positions of a set, in order of position.
RECURSIVE Pick(_, _, _)
Pick(level, from, to) ==
    IF from > to THEN <<>> ELSE <<level[from]>> \o Pick(level, from + 1, to)

\* get_proof, from level `lv` up: the siblings of current_index in its group
\* (hex), level by level, the root level excluded.  Indices are 0-based.
RECURSIVE ProofFrom(_, _, _, _)
ProofFrom(tree, fanout, lv, current_index) ==
    IF lv >= Len(tree) THEN <<>>
    ELSE LET level == tree[lv]
             group_index == current_index \div fanout
             group_start == group_index * fanout
             last == Min(group_start + fanout, Len(level)) - 1
             sibs == Pick(level, group_start + 1, current_index)
                       \o Pick(level, current_index + 2, last + 1)
         IN  [i \in 1..Len(sibs) |-> Hex(sibs[i])]
               \o ProofFrom(tree, fanout, lv + 1, group_index)

GetProof(tree, fanout, index) == ProofFrom(tree, fanout, 1, index)

\* The group rebuilt by verify_proof at one level: for i in range(fanout),
\* stopping at the end of the level, current_hash at position_in_group and
\* the next proof entries elsewhere.  Result: the group, the proof entries
\* consumed, and whether the proof ran out.
RECURSIVE RebuildGroup(_, _, _, _, _, _, _, _)
RebuildGroup(i, fanout, group_start, level_len, pos_in_group, current_hash, proof, pi) ==
    IF i >= fanout \/ group_start + i >= level_len
    THEN [hashes |-> <<>>, pi |-> pi, short |-> FALSE]
    ELSE IF i = pos_in_group
    THEN LET r == RebuildGroup(i + 1, fanout, group_start, level_len, pos_in_group,
                               current_hash, proof, pi)
         IN  [r EXCEPT !.hashes = <<current_hash>> \o r.hashes]
    ELSE IF pi >= Len(proof)
    THEN [hashes |-> <<>>, pi |-> pi, short |-> TRUE]
    ELSE LET r == RebuildGroup(i + 1, fanout, group_start, level_len, pos_in_group,
                               current_hash, proof, pi + 1)
         IN  [r EXCEPT !.hashes = <<FromHex(proof[pi + 1])>> \o r.hashes]

\* verify_proof, from level `lv` up.
RECURSIVE VerifyFrom(_, _, _, _, _, _, _, _)
VerifyFrom(tree, fanout, root, lv, current_hash, current_index, proof, pi) ==
    IF lv >= Len(tree) THEN current_hash = root
    ELSE LET group_index == current_index \div fanout
             g == RebuildGroup(0, fanout, group_index * fanout, Len(tree[lv]),
                               current_index % fanout, current_hash, proof, pi)
         IN  IF g.short THEN FALSE
             ELSE VerifyFrom(tree, fanout, root, lv + 1, Hash(Join(g.hashes)),
                             group_index, proof, g.pi)

\* verify_proof that takes the leaf digest from the tree instead of hashing the
\* leaf it was given.
VerifyProofStoredLeaf(tree, fanout, root, leaf, index, proof) ==
    VerifyFrom(tree, fanout, root, 1, tree[1][index + 1], index, proof, 0)

\* verify_proof that places the running hash first in every group.
VerifyProofFirstInGroup(tree, fanout, root, leaf, index, proof) ==
    VerifyFrom(tree, fanout, root, 1, Hash(leaf), (index \div fanout) * fanout, proof, 0)

\* verify_proof
VerifyProof(tree, fanout, root, leaf, index, proof) ==
    VerifyFrom(tree, fanout, root, 1, Hash(leaf), index, proof, 0)

\* Most leaves of a tree, and the largest fanout.
MaxLeaves == 5
MaxFanout == 3

\* Leaf contents.
LeafNames == {"a", "b"}

LeafLists == UNION { [1..n -> {Data(nm) : nm \in LeafNames}] : n \in 1..MaxLeaves }

\* MerkleTree.__init__
MerkleNew(leaves, fanout) ==
    LET tree == BuildTree(leaves, fanout)
    IN  [pc |-> "built", leaves |-> leaves, fanout |-> fanout, tree |-> tree,
         root |-> RootOf(tree), index |-> 0, proof |-> <<>>, leaf |-> <<>>,
         given |-> <<>>, tampered |-> "none", result |-> FALSE]

InitMerkle ==
    /\ merkle \in { MerkleNew(Arr(l, Len(l)), f) : l \in LeafLists, f \in 2..MaxFanout }
    /\ ldpc = Idle /\ ilv = Idle /\ vox = Idle /\ mani = Idle
    /\ pack = Idle /\ pipe = Idle

\* A caller asks for the proof of a leaf and holds it with the leaf.
GetProofCall ==
    /\ merkle.pc = "built"
    /\ \E i \in 0..(Len(merkle.leaves) - 1) :
         LET pr == GetProof(merkle.tree, merkle.fanout, i)
         IN  merkle' = [merkle EXCEPT !.pc = "proved", !.index = i,
                                      !.proof = Arr(pr, Len(pr)),
                                      !.given = Arr(pr, Len(pr)),
                                      !.leaf = merkle.leaves[i + 1]]
    /\ UNCHANGED <<ldpc, ilv, vox, mani, pack, pipe>>

\* Byte strings a different leaf may hold: other data, and the concatenation
\* of the digests of the first group of leaves.
OtherLeaves ==
    {Data(nm) : nm \in LeafNames \cup {"junk"}}
      \cup {Join(SubSeq(merkle.tree[1], 1, Min(merkle.fanout, Len(merkle.tree[1]))))}

\* Digests a replaced proof entry may hold: any digest of the tree, and the
\* digest of other data.
OtherDigests ==
    UNION { {merkle.tree[lv][i] : i \in 1..Len(merkle.tree[lv])} :
              lv \in 1..Len(merkle.tree) }
      \cup {Hash(Data("junk"))}

\* The leaf handed to verify_proof is changed.
TamperLeaf ==
    /\ merkle.pc = "proved" /\ merkle.tampered = "none"
    /\ \E l \in OtherLeaves :
         /\ l # merkle.leaves[merkle.index + 1]
         /\ merkle' = [merkle EXCEPT !.leaf = l, !.tampered = "leaf"]
    /\ UNCHANGED <<ldpc, ilv, vox, mani, pack, pipe>>

\* One hash of the proof handed to verify_proof is replaced by another value.
TamperProof ==
    /\ merkle.pc = "proved" /\ merkle.tampered = "none"
    /\ \E p \in 1..Len(merkle.proof), d \in OtherDigests :
         /\ Hex(d) # merkle.proof[p]
         /\ merkle' = [merkle EXCEPT !.given = [merkle.proof EXCEPT ![p] = Hex(d)],
                                     !.tampered = "proof"]
    /\ UNCHANGED <<ldpc, ilv, vox, mani, pack, pipe>>

\* A caller verifies the leaf and proof it holds.
VerifyProofCall ==
    /\ merkle.pc = "proved"
    /\ merkle' = [merkle EXCEPT !.pc = "verified",
                    !.result = VerifyProof(merkle.tree, merkle.fanout, merkle.root,
                                           merkle.leaf, merkle.index, merkle.given)]
    /\ UNCHANGED <<ldpc, ilv, vox, mani, pack, pipe>>

NextMerkle == GetProofCall \/ TamperLeaf \/ TamperProof \/ VerifyProofCall

SpecMerkle == InitMerkle /\ [][NextMerkle]_vars

\* C7: Merkle proof completeness.  For every non-empty list of leaves, every
\* fanout >= 2 and every index i, verify_proof(leaves[i], i, get_proof(i)) is
\* true.
C7_ProofCompleteness ==
    (merkle.pc = "verified" /\ merkle.tampered = "none") => merkle.result

\* C7 witness: a proof verified in a tree whose leaf sits in a short last group
\* (fewer than fanout members) below at least two levels.
C7_Witness ==
    /\ merkle.pc = "verified" /\ merkle.tampered = "none" /\ merkle.result
    /\ Len(merkle.tree) >= 3
    /\ Len(merkle.leaves) % merkle.fanout # 0
    /\ merkle.index = Len(merkle.leaves) - 1

\* C7 witness: the single-leaf tree, whose proof is empty.
C7_WitnessSingleLeaf ==
    /\ merkle.pc = "verified" /\ merkle.tampered = "none" /\ merkle.result
    /\ Len(merkle.leaves) = 1 /\ merkle.proof = <<>>

\* C8: Merkle proof soundness.  With a collision-free hash, verify_proof is
\* false when the leaf differs from leaves[i] or when one hash of get_proof(i)
\* was replaced by a different value.
C8_ProofSoundness ==
    (merkle.pc = "verified" /\ merkle.tampered # "none") => ~merkle.result

\* C8 witness: both kinds of change were verified and rejected, one with a
\* replaced proof entry above the leaf level.
C8_Witness ==
    /\ merkle.pc = "verified" /\ ~merkle.result
    /\ merkle.tampered = "proof"
    /\ Len(merkle.tree) >= 3
    /\ merkle.given[Len(merkle.given)] # merkle.proof[Len(merkle.proof)]

C8_WitnessLeaf ==
    /\ merkle.pc = "verified" /\ ~merkle.result
    /\ merkle.tampered = "leaf"
    /\ merkle.leaf = Join(SubSeq(merkle.tree[1], 1, merkle.fanout))

(***************************************************************************)
(* archive/manifest.py: Manifest                                           *)
(*                                                                         *)
(* self.data is a record of the top-level keys; "integrity" is a function  *)
(* on the keys present in the integrity block.  A hex digest is the term   *)
(* Hex(Hash(..)); the empty string is NoText and Python's None is None.    *)
(***************************************************************************)

None == <<"None">>
NoText == <<>>

\* json.dumps(data_copy, sort_keys=True): the canonical text of a value (one
\* text per value: keys are sorted).
CanonicalJson(value) == <<"json", value>>

\* json.dump(self.data, f, indent=2) and json.load(f)
DumpJson(data) == <<"file", data>>
LoadJson(file) == file[2]

\* data_copy = self.data.copy(); data_copy.pop("integrity", None)
WithoutIntegrity(data) == [key \in DOMAIN data \ {"integrity"} |-> data[key]]

\* compute_hash that leaves the file list out of the hash.
ComputeHashNoFiles(data) ==
    Hex(Hash(CanonicalJson([key \in DOMAIN data \ {"integrity", "files"} |-> data[key]])))

\* compute_hash
ComputeHash(data) == Hex(Hash(CanonicalJson(WithoutIntegrity(data))))

\* m with key k set to v (a new key is added).
SetKey(m, k, v) == [key \in DOMAIN m \cup {k} |-> IF key = k THEN v ELSE m[key]]
DropKey(m, k) == [key \in DOMAIN m \ {k} |-> m[key]]

\* save: self.data["integrity"]["manifest_hash"] = self.compute_hash(), then
\* the data is written.  Result: the data as it is afterwards and the file.
Save(data) ==
    LET d == [data EXCEPT !.integrity = SetKey(data.integrity, "manifest_hash",
                                               ComputeHash(data))]
    IN  [data |-> d, file |-> DumpJson(d)]

\* data.get("integrity", {}).get("manifest_hash")
StoredHash(data) ==
    IF "integrity" \in DOMAIN data /\ "manifest_hash" \in DOMAIN data.integrity
    THEN data.integrity["manifest_hash"]
    ELSE None

\* Python truth of a stored hash
Truthy(x) == x # None /\ x # NoText

\* load: parse, then verify the stored hash if there is one.
Load(file) ==
    LET data == LoadJson(file)
        stored_hash == StoredHash(data)
    IN  IF Truthy(stored_hash) /\ stored_hash # ComputeHash(data)
        THEN [raised |-> TRUE, data |-> None]
        ELSE [raised |-> FALSE, data |-> data]

\* Manifest.__init__
EmptyManifest ==
    [version |-> "1.0.0", created |-> "utcnow", profile |-> None,
     encoding |-> <<>>, integrity |-> <<>>, files |-> <<>>,
     instructions |-> "instructions"]

Sha256Texts == {"2cf24d", "2cf24e"}

\* add_file entries: the i-th file of a manifest.
FileEntry(i, sha) == [path |-> <<"a.txt", "b.txt">>[i], size |-> 11, sha256 |-> sha]

FileLists ==
    {<<>>} \cup { <<FileEntry(1, s1)>> : s1 \in Sha256Texts }
           \cup { <<FileEntry(1, s1), FileEntry(2, s2)>> : s1, s2 \in Sha256Texts }

\* set_profile, set_interleaving, add_file and set_merkle_root applied to a
\* new manifest.
Filled(profile, seed, files, root) ==
    [EmptyManifest EXCEPT
        !.profile = profile,
        !.encoding = [interleaving |-> [seed |-> seed, span |-> 10000, depth |-> 16]],
        !.files = files,
        !.integrity = SetKey(<<>>, "merkle_root", root)]

ManifestContents ==
    { Filled(pr, sd, fs, rt) :
        pr \in {"A", "B"}, sd \in {42, 7}, fs \in FileLists, rt \in {"r1", "r2"} }

InitMani ==
    /\ mani = [pc |-> "new", data |-> EmptyManifest, saved |-> None, file |-> None,
               changed |-> {}, raised |-> FALSE, loaded |-> None]
    /\ ldpc = Idle /\ ilv = Idle /\ vox = Idle /\ merkle = Idle
    /\ pack = Idle /\ pipe = Idle

\* The encoder fills the manifest in.
Fill ==
    /\ mani.pc = "new"
    /\ \E d \in ManifestContents : mani' = [mani EXCEPT !.pc = "filled", !.data = d]
    /\ UNCHANGED <<ldpc, ilv, vox, merkle, pack, pipe>>

\* Manifest.save
SaveCall ==
    /\ mani.pc = "filled"
    /\ LET r == Save(mani.data)
       IN  mani' = [mani EXCEPT !.pc = "saved", !.data = r.data, !.saved = r.data,
                                !.file = r.file]
    /\ UNCHANGED <<ldpc, ilv, vox, merkle, pack, pipe>>

\* The saved file is edited: values outside the integrity block are changed and
\* the integrity block is left as saved.
TamperFields ==
    /\ mani.pc = "saved" /\ mani.changed = {}
    /\ \E d \in ManifestContents :
         /\ WithoutIntegrity(d) # WithoutIntegrity(LoadJson(mani.file))
         /\ mani' = [mani EXCEPT
                       !.file = DumpJson([d EXCEPT !.integrity = mani.saved.integrity]),
                       !.changed = {"fields"}]
    /\ UNCHANGED <<ldpc, ilv, vox, merkle, pack, pipe>>

\* The saved file's integrity block is edited: the stored hash is deleted,
\* emptied or replaced, the Merkle root is replaced, or the block is deleted.
TamperIntegrity ==
    /\ mani.pc = "saved" /\ "integrity" \notin mani.changed
    /\ LET d == LoadJson(mani.file)
       IN  \E how \in {"delete_hash", "empty_hash", "other_hash", "other_root",
                       "delete_block"} :
             LET e == CASE how = "delete_hash" ->
                             [d EXCEPT !.integrity = DropKey(d.integrity, "manifest_hash")]
                        [] how = "empty_hash" ->
                             [d EXCEPT !.integrity["manifest_hash"] = NoText]
                        [] how = "other_hash" ->
                             [d EXCEPT !.integrity["manifest_hash"] =
                                          ComputeHash([d EXCEPT !.version = "0.0.0"])]
                        [] how = "other_root" ->
                             [d EXCEPT !.integrity["merkle_root"] = "r3"]
                        [] how = "delete_block" -> DropKey(d, "integrity")
             IN  mani' = [mani EXCEPT !.file = DumpJson(e),
                                      !.changed = mani.changed \cup {"integrity"}]
    /\ UNCHANGED <<ldpc, ilv, vox, merkle, pack, pipe>>

\* Manifest.load of the file as it is now.
LoadCall ==
    /\ mani.pc = "saved"
    /\ LET r == Load(mani.file)
       IN  mani' = [mani EXCEPT !.pc = "loaded", !.raised = r.raised,
                                !.loaded = r.data]
    /\ UNCHANGED <<ldpc, ilv, vox, merkle, pack, pipe>>

NextMani == Fill \/ SaveCall \/ TamperFields \/ TamperIntegrity \/ LoadCall

SpecMani == InitMani /\ [][NextMani]_vars

C9_WitnessClean ==
    /\ mani.pc = "loaded" /\ mani.changed = {} /\ ~mani.raised
    /\ mani.loaded = mani.saved /\ Len(mani.saved.files) >= 1

(***************************************************************************)
(* packer.py: pack_folder_to_bytes, unpack_bytes_to_folder                 *)
(*                                                                         *)
(* A byte string is a sequence of 0..255, a text a sequence of code        *)
(* points.  A folder maps each file's path (the sequence of its names) to  *)
(* its content and whether it can be read.  Positions in a blob count from *)
(* 0 as in the code.                                                       *)
(***************************************************************************)

RECURSIVE Utf8Encode(_)
\* str.encode("utf-8") for code points below 2048
Utf8Encode(text) ==
    IF text = <<>> THEN <<>>
    ELSE LET c == Head(text)
         IN  (IF c < 128 THEN <<c>> ELSE <<192 + (c \div 64), 128 + (c % 64)>>)
             \o Utf8Encode(Tail(text))

RECURSIVE Utf8Decode(_)
\* bytes.decode("utf-8") of one- and two-byte sequences
Utf8Decode(bytes) ==
    IF bytes = <<>> THEN <<>>
    ELSE IF Head(bytes) < 128 THEN <<Head(bytes)>> \o Utf8Decode(Tail(bytes))
    ELSE <<(Head(bytes) - 192) * 64 + (bytes[2] - 128)>> \o Utf8Decode(Tail(Tail(bytes)))

RECURSIVE ToBytes(_, _)
\* int.to_bytes(width, "big")
ToBytes(n, width) ==
    IF width = 0 THEN <<>> ELSE Append(ToBytes(n \div 256, width - 1), n % 256)

RECURSIVE FromBytes(_)
\* int.from_bytes(bytes, "big")
FromBytes(bytes) ==
    IF bytes = <<>> THEN 0
    ELSE FromBytes(SubSeq(bytes, 1, Len(bytes) - 1)) * 256 + bytes[Len(bytes)]

\* b"CRYSTAL\x00" and b"FILE\x00"
Magic == <<67, 82, 89, 83, 84, 65, 76, 0>>
FileMarker == <<70, 73, 76, 69, 0>>

\* blob[a:b]
Slice(blob, a, b) == SubSeq(blob, a + 1, Min(b, Len(blob)))

\* blob.startswith(prefix)
StartsWith(blob, prefix) == Len(blob) >= Len(prefix) /\ Slice(blob, 0, Len(prefix)) = prefix

\* blob.find(b"\x00", pos)
FindNul(blob, pos) ==
    LET hits == { i \in pos..(Len(blob) - 1) : blob[i + 1] = 0 }
    IN  IF hits = {} THEN -1 ELSE CHOOSE i \in hits : \A j \in hits : i <= j

RECURSIVE LexLess(_, _)
\* a < b for two texts (order of sorted())
LexLess(a, b) ==
    IF b = <<>> THEN FALSE
    ELSE IF a = <<>> THEN TRUE
    ELSE IF Head(a) # Head(b) THEN Head(a) < Head(b)
    ELSE LexLess(Tail(a), Tail(b))

\* sorted(names): each name at the rank given by the number of names below it
Sorted(names) ==
    LET ranked == { <<Cardinality({ y \in names : LexLess(y, x) }) + 1, x>> : x \in names }
    IN  Arr([i \in 1..Cardinality(names) |-> (CHOOSE r \in ranked : r[1] = i)[2]],
            Cardinality(names))

RECURSIVE RelativePath(_)
\* str(filepath.relative_to(folder)): the names joined by "/"
RelativePath(path) ==
    IF Len(path) = 1 THEN path[1]
    ELSE path[1] \o <<47>> \o RelativePath(Tail(path))

\* The directories of a folder (the root is <<>>), and what os.walk yields for
\* one of them: its files, and its subdirectories.
FilesOf(folder, dir) ==
    { p \in DOMAIN folder : Len(p) = Len(dir) + 1 /\ SubSeq(p, 1, Len(dir)) = dir }
SubDirsOf(folder, dir) ==
    { SubSeq(p, 1, Len(dir) + 1) :
        p \in { q \in DOMAIN folder : Len(q) > Len(dir) + 1 /\ SubSeq(q, 1, Len(dir)) = dir } }

RECURSIVE Walk(_, _, _)
RECURSIVE WalkEach(_, _, _, _)
\* os.walk(folder), top down, as the list of file paths in the order the two
\* loops visit them: the files of a directory sorted by name, then each
\* subdirectory in the order the file system lists it (listing: the directory
\* names in the file system's order).
Walk(folder, dir, listing) ==
    LET names == { p[Len(p)] : p \in FilesOf(folder, dir) }
        sorted == Sorted(names)
    IN  [i \in 1..Len(sorted) |-> Append(dir, sorted[i])]
        \o WalkEach(folder, dir, listing, 1)

WalkEach(folder, dir, listing, i) ==
    IF i > Len(listing) THEN <<>>
    ELSE (IF Append(dir, listing[i]) \in SubDirsOf(folder, dir)
          THEN Walk(folder, Append(dir, listing[i]), listing) ELSE <<>>)
         \o WalkEach(folder, dir, listing, i + 1)

\* sha256(data): hashlib.sha256(data).hexdigest()
Sha256Hex(data) == Hex(Hash(data))

RECURSIVE PackFrom(_, _, _, _, _, _)
\* The two loops of pack_folder_to_bytes over the walk, from the i-th file on;
\* a file that cannot be read is skipped.
PackFrom(folder, order, i, blob, files, total) ==
    IF i > Len(order) THEN [blob |-> blob, metadata |-> [files |-> files, total_size |-> total]]
    ELSE LET path == order[i]
             relative_path == RelativePath(path)
             data == folder[path].data
         IN  IF ~folder[path].readable
             THEN PackFrom(folder, order, i + 1, blob, files, total)
             ELSE PackFrom(folder, order, i + 1,
                           blob \o FileMarker \o Utf8Encode(relative_path) \o <<0>>
                                \o ToBytes(Len(data), 8) \o data,
                           Append(files, [path |-> relative_path, size |-> Len(data),
                                          sha256 |-> Sha256Hex(data)]),
                           total + Len(data))

\* pack_folder_to_bytes of a folder that exists
PackFolderToBytes(folder, listing) ==
    PackFrom(folder, Walk(folder, <<>>, listing), 1, Magic, <<>>, 0)

\* Reading a record's data up to the next FILE marker instead of by its size.
RecordDataToMarker(blob, pos, size) ==
    LET marks == { i \in pos..(Len(blob) - 5) : Slice(blob, i, i + 5) = FileMarker }
    IN  IF marks = {} THEN Slice(blob, pos, Len(blob))
        ELSE Slice(blob, pos, CHOOSE i \in marks : \A j \in marks : i <= j)

\* data = blob[pos:pos+size]
RecordData(blob, pos, size) == Slice(blob, pos, pos + size)

RECURSIVE UnpackLoop(_, _, _, _, _)
\* The while loop of unpack_bytes_to_folder; written maps each path written
\* under output_dir to its bytes.
UnpackLoop(blob, pos, written, files, total) ==
    LET done == [raised |-> FALSE, written |-> written,
                 metadata |-> [files |-> files, total_size |-> total]]
    IN  IF ~(pos < Len(blob)) THEN done
        ELSE IF pos + 5 > Len(blob) \/ Slice(blob, pos, pos + 5) # FileMarker THEN done
        ELSE LET name_end == FindNul(blob, pos + 5)
             IN  IF name_end = -1 THEN done
                 ELSE LET filename == Utf8Decode(Slice(blob, pos + 5, name_end))
                          at == name_end + 1
                      IN  IF at + 8 > Len(blob) THEN done
                          ELSE LET size == FromBytes(Slice(blob, at, at + 8))
                               IN  IF at + 8 + size > Len(blob) THEN done
                                   ELSE LET data == RecordData(blob, at + 8, size)
                                        IN  UnpackLoop(blob, at + 8 + size,
                                                SetKey(written, filename, data),
                                                Append(files, [path |-> filename,
                                                               size |-> size,
                                                               sha256 |-> Sha256Hex(data)]),
                                                total + size)

\* unpack_bytes_to_folder
UnpackBytesToFolder(blob) ==
    IF ~StartsWith(blob, Magic)
    THEN [raised |-> TRUE, written |-> <<>>, metadata |-> None]
    ELSE UnpackLoop(blob, 8, <<>>, <<>>, 0)

\* The folders explored: up to MaxFiles files out of five paths (two at the
\* root, one of them not ASCII, and three in nested directories), each with one
\* of four contents.
MaxFiles == 3
NameB == <<98>>
NameEAcute == <<233>>
NameA == <<97>>
DirD == <<100>>
DirS == <<115>>
Paths == {<<NameB>>, <<NameEAcute>>, <<DirD, NameA>>, <<DirS, NameA>>, <<DirD, DirS, NameB>>}
FakeRecord == FileMarker \o <<120, 0>> \o ToBytes(1, 8) \o <<121>>
Contents == {<<>>, Magic, FakeRecord, <<120>> \o FileMarker}
Listings == {<<DirD, DirS>>, <<DirS, DirD>>}

Folders ==
    UNION { UNION { { [p \in ps |-> [data |-> content[p], readable |-> p \notin unreadable]] :
                        unreadable \in { u \in SUBSET ps : Cardinality(u) <= 1 } } :
                    content \in [ps -> Contents] } :
            ps \in { q \in SUBSET Paths : Cardinality(q) <= MaxFiles } }

PackNew(exists, folder, listing) ==
    [pc |-> "folder", exists |-> exists, folder |-> folder, listing |-> listing,
     blob |-> <<>>, metadata |-> None, raised |-> FALSE, written |-> <<>>,
     unpacked |-> None]

InitPack ==
    /\ \/ \E folder \in Folders, listing \in Listings : pack = PackNew(TRUE, folder, listing)
       \/ pack = PackNew(FALSE, <<>>, <<>>)
    /\ ldpc = Idle /\ ilv = Idle /\ vox = Idle /\ merkle = Idle
    /\ mani = Idle /\ pipe = Idle

\* pack_folder_to_bytes(folder)
PackCall ==
    /\ pack.pc = "folder"
    /\ IF ~pack.exists
       THEN pack' = [pack EXCEPT !.pc = "failed", !.raised = TRUE]
       ELSE LET r == PackFolderToBytes(pack.folder, pack.listing)
            IN  pack' = [pack EXCEPT !.pc = "packed", !.blob = r.blob,
                                     !.metadata = r.metadata]
    /\ UNCHANGED <<ldpc, ilv, vox, merkle, mani, pipe>>

\* unpack_bytes_to_folder(blob, output_dir) into a new output_dir
UnpackCall ==
    /\ pack.pc = "packed"
    /\ LET r == UnpackBytesToFolder(pack.blob)
       IN  pack' = [pack EXCEPT !.pc = "unpacked", !.raised = r.raised,
                                !.written = r.written, !.unpacked = r.metadata]
    /\ UNCHANGED <<ldpc, ilv, vox, merkle, mani, pipe>>

NextPack == PackCall \/ UnpackCall

SpecPack == InitPack /\ [][NextPack]_vars

\* The files of the folder as a map from relative path to bytes.
FolderBytes(folder) ==
    [t \in { RelativePath(p) : p \in DOMAIN folder } |->
        folder[CHOOSE p \in DOMAIN folder : RelativePath(p) = t].data]

AllReadable(folder) == \A p \in DOMAIN folder : folder[p].readable

\* C2: pack/unpack round trip.  For a folder whose files can all be read,
\* unpacking the packed blob writes exactly the folder's relative paths with
\* their bytes, and returns the (path, size, sha256) entries that pack
\* returned, in the same order, one per file of the folder.
C2_PackUnpackRoundTrip ==
    (pack.pc = "unpacked" /\ AllReadable(pack.folder)) =>
        /\ ~pack.raised
        /\ DOMAIN pack.written = DOMAIN FolderBytes(pack.folder)
        /\ \A t \in DOMAIN pack.written : pack.written[t] = FolderBytes(pack.folder)[t]
        /\ pack.unpacked.files = pack.metadata.files
        /\ Len(pack.unpacked.files) = Cardinality(DOMAIN pack.folder)
        /\ \A i \in 1..Len(pack.unpacked.files) :
             LET e == pack.unpacked.files[i]
             IN  /\ e.path \in DOMAIN FolderBytes(pack.folder)
                 /\ e.size = Len(FolderBytes(pack.folder)[e.path])
                 /\ e.sha256 = Sha256Hex(FolderBytes(pack.folder)[e.path])

\* C2 witness: a round trip of a folder with a zero-byte file, a file whose
\* content holds a whole FILE record and a file two directories down.
C2_Witness ==
    /\ pack.pc = "unpacked" /\ AllReadable(pack.folder)
    /\ Cardinality(DOMAIN pack.folder) = 3
    /\ \E p \in DOMAIN pack.folder : pack.folder[p].data = <<>>
    /\ \E p \in DOMAIN pack.folder : pack.folder[p].data = FakeRecord
    /\ \E p \in DOMAIN pack.folder : Len(p) = 3
    /\ Len(pack.unpacked.files) = 3

\* C2 witness: a round trip of a file whose content is the archive magic, under
\* a name that is not ASCII.
C2_WitnessMagic ==
    /\ pack.pc = "unpacked" /\ AllReadable(pack.folder)
    /\ <<NameEAcute>> \in DOMAIN pack.folder
    /\ pack.folder[<<NameEAcute>>].data = Magic
    /\ pack.written[NameEAcute] = Magic

\* C14: deterministic lexicographic packing.  Whatever order the file system
\* lists the directories in, the metadata entries (and with them the records)
\* are in lexicographic order of their relative paths, and the blob is the one
\* every other directory order gives.
C14_LexicographicPacking ==
    pack.pc = "packed" =>
        /\ \A i, j \in 1..Len(pack.metadata.files) :
             i < j => LexLess(pack.metadata.files[i].path, pack.metadata.files[j].path)
        /\ \A listing \in Listings :
             pack.blob = PackFolderToBytes(pack.folder, listing).blob

\* C15: no silent skip.  pack_folder_to_bytes returns a blob and metadata only
\* if every file of the folder could be read.
C15_NoSilentSkip ==
    pack.pc = "packed" => AllReadable(pack.folder)

(***************************************************************************)
(* unpack_bytes_to_folder on blobs that no pack produced: the blobs of two *)
(* folders cut at every length, with a byte added at a record boundary, or *)
(* with the magic damaged.                                                 *)
(***************************************************************************)

BaseFolders ==
    { [p \in {<<NameB>>, <<DirD, NameA>>} |->
         [data |-> IF p = <<NameB>> THEN <<1, 2>> ELSE <<>>, readable |-> TRUE]],
      [p \in {<<NameEAcute>>, <<DirD, DirS, NameB>>} |->
         [data |-> IF p = <<NameEAcute>> THEN <<>> ELSE <<3>>, readable |-> TRUE]] }

BaseBlobs == { PackFolderToBytes(f, <<DirD, DirS>>).blob : f \in BaseFolders }

\* The offsets of a blob at which a record starts or the blob ends.
RECURSIVE RecordBoundaries(_, _)
RecordBoundaries(blob, pos) ==
    IF pos >= Len(blob) THEN {pos}
    ELSE LET at == FindNul(blob, pos + 5) + 1
         IN  {pos} \cup RecordBoundaries(blob, at + 8 + FromBytes(Slice(blob, at, at + 8)))

DamagedBlobs ==
    UNION { { Slice(b, 0, n) : n \in 0..Len(b) }
            \cup { Slice(b, 0, n) \o <<120>> \o Slice(b, n, Len(b)) :
                     n \in RecordBoundaries(b, 8) }
            \cup { <<99>> \o Tail(b), Tail(b) } : b \in BaseBlobs }

InitUnpack ==
    /\ \E blob \in DamagedBlobs :
         pack = [PackNew(TRUE, <<>>, <<>>) EXCEPT !.pc = "packed", !.blob = blob]
    /\ ldpc = Idle /\ ilv = Idle /\ vox = Idle /\ merkle = Idle
    /\ mani = Idle /\ pipe = Idle

SpecUnpack == InitUnpack /\ [][UnpackCall]_vars

\* The length of the blob that holds exactly the records of the entries.
RECURSIVE RecordsLength(_)
RecordsLength(files) ==
    IF files = <<>> THEN 0
    ELSE 5 + Len(Utf8Encode(Head(files).path)) + 1 + 8 + Head(files).size
         + RecordsLength(Tail(files))

\* C16: malformed blob rejection.  unpack_bytes_to_folder returns normally
\* only for a blob that starts with the magic and is, after it, a sequence of
\* whole records and nothing else: the records it parsed cover the blob.
C16_MalformedBlobRejection ==
    (pack.pc = "unpacked" /\ ~pack.raised) =>
        /\ StartsWith(pack.blob, Magic)
        /\ Len(Magic) + RecordsLength(pack.unpacked.files) = Len(pack.blob)

(***************************************************************************)
(* codecs/ecc_rs.py and codecs/compression.py, with the libraries they     *)
(* wrap.  reedsolo works in GF(2^8) with polynomial 0x11d and generator 2; *)
(* the codec is modelled with two parity symbols per chunk (RsN - RsK)     *)
(* instead of the 32 of RS(255,223), for which the library's decoder is    *)
(* exactly: no error, one corrected symbol, or ReedSolomonError.           *)
(***************************************************************************)

RECURSIVE Xor(_, _)
\* a ^ b
Xor(a, b) ==
    IF a = 0 THEN b ELSE IF b = 0 THEN a
    ELSE ((a + b) % 2) + 2 * Xor(a \div 2, b \div 2)

\* reedsolo's gf_exp: GfExp[i + 1] = 2^i in GF(2^8)
GfExp == <<
    1, 2, 4, 8, 16, 32, 64, 128, 29, 58, 116, 232, 205, 135, 19, 38, 76, 152,
    45, 90, 180, 117, 234, 201, 143, 3, 6, 12, 24, 48, 96, 192, 157, 39, 78,
    156, 37, 74, 148, 53, 106, 212, 181, 119, 238, 193, 159, 35, 70, 140, 5,
    10, 20, 40, 80, 160, 93, 186, 105, 210, 185, 111, 222, 161, 95, 190, 97,
    194, 153, 47, 94, 188, 101, 202, 137, 15, 30, 60, 120, 240, 253, 231,
    211, 187, 107, 214, 177, 127, 254, 225, 223, 163, 91, 182, 113, 226, 217,
    175, 67, 134, 17, 34, 68, 136, 13, 26, 52, 104, 208, 189, 103, 206, 129,
    31, 62, 124, 248, 237, 199, 147, 59, 118, 236, 197, 151, 51, 102, 204,
    133, 23, 46, 92, 184, 109, 218, 169, 79, 158, 33, 66, 132, 21, 42, 84,
    168, 77, 154, 41, 82, 164, 85, 170, 73, 146, 57, 114, 228, 213, 183, 115,
    230, 209, 191, 99, 198, 145, 63, 126, 252, 229, 215, 179, 123, 246, 241,
    255, 227, 219, 171, 75, 150, 49, 98, 196, 149, 55, 110, 220, 165, 87,
    174, 65, 130, 25, 50, 100, 200, 141, 7, 14, 28, 56, 112, 224, 221, 167,
    83, 166, 81, 162, 89, 178, 121, 242, 249, 239, 195, 155, 43, 86, 172, 69,
    138, 9, 18, 36, 72, 144, 61, 122, 244, 245, 247, 243, 251, 235, 203, 139,
    11, 22, 44, 88, 176, 125, 250, 233, 207, 131, 27, 54, 108, 216, 173, 71,
    142 >>

\* reedsolo's gf_log: GfLog[x] = i with 2^i = x, for x in 1..255
GfLog == <<
    0, 1, 25, 2, 50, 26, 198, 3, 223, 51, 238, 27, 104, 199, 75, 4, 100, 224,
    14, 52, 141, 239, 129, 28, 193, 105, 248, 200, 8, 76, 113, 5, 138, 101,
    47, 225, 36, 15, 33, 53, 147, 142, 218, 240, 18, 130, 69, 29, 181, 194,
    125, 106, 39, 249, 185, 201, 154, 9, 120, 77, 228, 114, 166, 6, 191, 139,
    98, 102, 221, 48, 253, 226, 152, 37, 179, 16, 145, 34, 136, 54, 208, 148,
    206, 143, 150, 219, 189, 241, 210, 19, 92, 131, 56, 70, 64, 30, 66, 182,
    163, 195, 72, 126, 110, 107, 58, 40, 84, 250, 133, 186, 61, 202, 94, 155,
    159, 10, 21, 121, 43, 78, 212, 229, 172, 115, 243, 167, 87, 7, 112, 192,
    247, 140, 128, 99, 13, 103, 74, 222, 237, 49, 197, 254, 24, 227, 165,
    153, 119, 38, 184, 180, 124, 17, 68, 146, 217, 35, 32, 137, 46, 55, 63,
    209, 91, 149, 188, 207, 205, 144, 135, 151, 178, 220, 252, 190, 97, 242,
    86, 211, 171, 20, 42, 93, 158, 132, 60, 57, 83, 71, 109, 65, 162, 31, 45,
    67, 216, 183, 123, 164, 118, 196, 23, 73, 236, 127, 12, 111, 246, 108,
    161, 59, 82, 41, 157, 85, 170, 251, 96, 134, 177, 187, 204, 62, 90, 203,
    89, 95, 176, 156, 169, 160, 81, 11, 245, 22, 235, 122, 117, 44, 215, 79,
    174, 213, 233, 230, 231, 173, 232, 116, 214, 244, 234, 168, 80, 88, 175 >>

GfMul(a, b) == IF a = 0 \/ b = 0 THEN 0 ELSE GfExp[((GfLog[a] + GfLog[b]) % 255) + 1]
GfDiv(a, b) == IF a = 0 THEN 0 ELSE GfExp[((GfLog[a] + 255 - GfLog[b]) % 255) + 1]

\* ReedSolomonCodec.__init__(n, k) at the model's scale
RsN == 15
RsK == 13

RECURSIVE RsSyndrome(_, _, _)
\* rs_calc_syndromes: the chunk as a polynomial (first byte the highest
\* coefficient) evaluated at 2^j, over its first `len` bytes.
RsSyndrome(chunk, j, len) ==
    IF len = 0 THEN 0
    ELSE Xor(GfMul(RsSyndrome(chunk, j, len - 1), GfExp[j + 1]), chunk[len])

\* RSCodec.encode of one message: the two parity bytes that make both
\* syndromes zero, appended.
RsEncodeChunk(msg) ==
    LET shifted == msg \o <<0, 0>>
        s0 == RsSyndrome(shifted, 0, Len(shifted))
        s1 == RsSyndrome(shifted, 1, Len(shifted))
        p1 == GfDiv(Xor(s0, s1), 3)
        p2 == Xor(s0, p1)
    IN  msg \o <<p1, p2>>

\* RSCodec.decode of one chunk: [ok, msg]; ok is FALSE for ReedSolomonError.
RsDecodeChunk(chunk) ==
    LET s0 == RsSyndrome(chunk, 0, Len(chunk))
        s1 == RsSyndrome(chunk, 1, Len(chunk))
        degree == (GfLog[s1] + 255 - GfLog[s0]) % 255
        fixed == [chunk EXCEPT ![Len(chunk) - degree] = Xor(@, s0)]
    IN  IF s0 = 0 /\ s1 = 0
        THEN [ok |-> TRUE, msg |-> SubSeq(chunk, 1, Len(chunk) - (RsN - RsK))]
        ELSE IF s0 # 0 /\ s1 # 0 /\ degree < Len(chunk)
        THEN [ok |-> TRUE, msg |-> SubSeq(fixed, 1, Len(chunk) - (RsN - RsK))]
        ELSE [ok |-> FALSE, msg |-> <<>>]

RECURSIVE RsEncode(_)
\* ReedSolomonCodec.encode: chunks of k bytes, the last zero-padded
RsEncode(data) ==
    IF data = <<>> THEN <<>>
    ELSE LET chunk == SubSeq(data, 1, Min(RsK, Len(data)))
             padded == chunk \o [i \in 1..(RsK - Len(chunk)) |-> 0]
         IN  RsEncodeChunk(padded) \o RsEncode(SubSeq(data, RsK + 1, Len(data)))

RECURSIVE RsDecodePartial(_)
\* A decode that stops at the first chunk it cannot correct and returns the
\* chunks decoded before it.
RsDecodePartial(encoded_data) ==
    IF encoded_data = <<>> THEN <<>>
    ELSE LET r == RsDecodeChunk(SubSeq(encoded_data, 1, Min(RsN, Len(encoded_data))))
         IN  IF ~r.ok THEN <<>>
             ELSE r.msg \o RsDecodePartial(SubSeq(encoded_data, RsN + 1, Len(encoded_data)))

RECURSIVE RsDecodeChunks(_)
\* The loop of ReedSolomonCodec.decode over chunks of n bytes: whether every
\* chunk was corrected, and the messages joined.
RsDecodeChunks(encoded_data) ==
    IF encoded_data = <<>> THEN [ok |-> TRUE, data |-> <<>>]
    ELSE LET r == RsDecodeChunk(SubSeq(encoded_data, 1, Min(RsN, Len(encoded_data))))
             rest == RsDecodeChunks(SubSeq(encoded_data, RsN + 1, Len(encoded_data)))
         IN  IF ~r.ok THEN [ok |-> FALSE, data |-> <<>>]
             ELSE [ok |-> rest.ok, data |-> r.msg \o rest.data]

\* ReedSolomonCodec.decode without erasure positions: None as soon as one
\* chunk cannot be corrected.
RsDecode(encoded_data) ==
    IF RsDecodeChunks(encoded_data).ok THEN RsDecodeChunks(encoded_data).data ELSE None

RECURSIVE XorAll(_, _, _)
\* parity[k] ^= shard[k] over the first `count` shards
XorAll(shards, count, k) ==
    IF count = 0 THEN 0 ELSE Xor(XorAll(shards, count - 1, k), shards[count][k])

\* int(num_data_shards * (n / k - 1)) in double arithmetic.  For (255, 223)
\* and for the model's (15, 13) the double n / k - 1 lies just below
\* (n - k) / k, by far less than 1 / k: the product is truncated to the exact
\* floor, except for a positive multiple of k, where it falls just below the
\* integer and is truncated to one less.
NumParityShards(num_data_shards) ==
    LET exact == (num_data_shards * (RsN - RsK)) \div RsK
    IN  IF num_data_shards > 0 /\ num_data_shards % RsK = 0 THEN exact - 1 ELSE exact

\* ReedSolomonCodec.create_shards
CreateShards(data, shard_size) ==
    LET num_data_shards == (Len(data) + shard_size - 1) \div shard_size
        shard(i) == LET part == SubSeq(data, (i - 1) * shard_size + 1,
                                       Min(i * shard_size, Len(data)))
                    IN  part \o [z \in 1..(shard_size - Len(part)) |-> 0]
        data_shards == Arr([i \in 1..num_data_shards |-> shard(i)], num_data_shards)
        parity == Arr([k \in 1..shard_size |-> XorAll(data_shards, num_data_shards, k)],
                      shard_size)
    IN  data_shards \o [i \in 1..NumParityShards(num_data_shards) |-> parity]

\* The zstd frame: magic number, content size, content.
ZstdMagic == <<40, 181, 47, 253>>

\* compress_data(data, "zstd", level): [compressed, info]
CompressData(data, level) ==
    LET compressed == ZstdMagic \o <<Len(data)>> \o data
    IN  [compressed |-> compressed,
         info |-> [codec |-> "zstd", level |-> level, original_size |-> Len(data),
                   compressed_size |-> Len(compressed)]]

\* decompress_data(data, codec_info) for codec "zstd": the content of the
\* frame the data starts with (bytes after the frame are ignored); ok is FALSE
\* for ZstdError.
DecompressData(data) ==
    IF StartsWith(data, ZstdMagic) /\ Len(data) >= 5 /\ Len(data) >= 5 + data[5]
    THEN [ok |-> TRUE, data |-> Slice(data, 5, 5 + data[5])]
    ELSE [ok |-> FALSE, data |-> <<>>]

\* np.unpackbits(np.frombuffer(shard, dtype=np.uint8)): most significant bit
\* first
UnpackBits(bytes) ==
    Arr([i \in 1..(8 * Len(bytes)) |-> BitAt(bytes[((i - 1) \div 8) + 1], 7 - ((i - 1) % 8))],
        8 * Len(bytes))

\* np.packbits(bits): zero-padded to whole bytes
PackBits(bits) ==
    LET n == (Len(bits) + 7) \div 8
        bit(i) == IF i <= Len(bits) THEN bits[i] ELSE 0
    IN  Arr([b \in 1..n |-> SumSeq([j \in 1..8 |-> bit((b - 1) * 8 + j) * Pow2(8 - j)])], n)

(***************************************************************************)
(* archive/pipeline.py: encode_folder, decode_archive                      *)
(*                                                                         *)
(* The sizes the code fixes are scaled down: shards of ShardSize bytes     *)
(* (4096 in the code), LDPC codewords of LdpcN bits (1024), tiles of       *)
(* TileSize symbols (256), TilesPerPlane tiles per plane (64).  Rates and  *)
(* overheads are in hundredths.                                            *)
(***************************************************************************)

PROFILE_A ==
    [name |-> "Conservative", voxel_mode |-> "3bit", ldpc_rate |-> 75,
     rs_overhead |-> 20, interleave_span |-> 10000, interleave_depth |-> 16,
     compression |-> "zstd", compression_level |-> 6]

PROFILE_B ==
    [name |-> "Aggressive", voxel_mode |-> "5bit", ldpc_rate |-> 83,
     rs_overhead |-> 12, interleave_span |-> 5000, interleave_depth |-> 8,
     compression |-> "zstd", compression_level |-> 9]

ShardSize == 5
LdpcN == 16
TileSize == 2
TilesPerPlane == 2

\* SimpleLDPC.__init__'s default rate, which the pipeline never overrides
DefaultLdpcRate == 75

\* profile_params = PROFILE_A if profile == "A" else PROFILE_B
ProfileParams(profile) == IF profile = "A" THEN PROFILE_A ELSE PROFILE_B

\* k=int(1024 * profile_params["ldpc_rate"]) at the model's codeword length
LdpcK(params) == (LdpcN * params.ldpc_rate) \div 100

RECURSIVE FlattenRange(_, _, _)
\* np.concatenate / list.extend over arrays[lo..hi]
FlattenRange(arrays, lo, hi) ==
    IF lo > hi THEN <<>>
    ELSE IF lo = hi THEN arrays[lo]
    ELSE FlattenRange(arrays, lo, (lo + hi) \div 2)
         \o FlattenRange(arrays, ((lo + hi) \div 2) + 1, hi)

\* np.concatenate of the first n arrays of a list
Flatten(arrays, n) == FlattenRange(arrays, 1, n)

\* block = bits[i:i+size], zero-padded to size (np.pad)
PaddedBlock(bits, b, size) ==
    LET part == SubSeq(bits, (b - 1) * size + 1, Min(b * size, Len(bits)))
    IN  part \o [z \in 1..(size - Len(part)) |-> 0]

\* Step 4 of encode_folder for one shard: its bits in blocks of k, the last
\* zero-padded, each block LDPC-encoded.
EncodeShard(H, k, shard) ==
    LET shard_bits == UnpackBits(shard)
        blocks == (Len(shard_bits) + k - 1) \div k
        encoded_blocks == Arr([b \in 1..blocks |->
                                  LdpcEncode(H, k, PaddedBlock(shard_bits, b, k))], blocks)
    IN  Flatten(encoded_blocks, blocks)

\* rng.permutation(N) of a new default_rng(seed).  One permutation per seed and
\* length, not computed here: `draw` names which of the model's shuffles of
\* 0..N-1 the generator yields (reversal, rotation by one, rotation by half).
PermDraws == 0..2
PermutationOf(N, draw) ==
    Arr([i \in 1..N |->
           CASE draw = 0 -> N - i
             [] draw = 1 -> i % N
             [] OTHER -> ((i - 1) + (N \div 2) + 1) % N], N)

RECURSIVE Decimal(_)
\* str(n): the decimal digits of n as code points
Decimal(n) == IF n < 10 THEN <<48 + n>> ELSE Append(Decimal(n \div 10), 48 + (n % 10))

\* f"{n:0{width}d}": zero-padded to at least `width` digits
ZeroPadded(n, width) == [i \in 1..(width - Len(Decimal(n))) |-> 48] \o Decimal(n)

\* The widths of f"plane_{plane_idx:03d}" and f"tile_{tile_idx:04d}.json"
PlaneDigits == 3
TileDigits == 4

PlaneName(plane_idx) == <<112, 108, 97, 110, 101, 95>> \o ZeroPadded(plane_idx, PlaneDigits)
TileName(tile_idx) ==
    <<116, 105, 108, 101, 95>> \o ZeroPadded(tile_idx, TileDigits) \o <<46, 106, 115, 111, 110>>

RECURSIVE NameIndex(_, _, _)
\* The number a plane or tile name was formatted from: its digits from
\* position i on (value so far: acc).
NameIndex(name, i, acc) ==
    IF i > Len(name) \/ name[i] < 48 \/ name[i] > 57 THEN acc
    ELSE NameIndex(name, i + 1, 10 * acc + (name[i] - 48))
PlaneIndex(name) == NameIndex(name, 7, 0)
TileIndex(name) == NameIndex(name, 6, 0)

\* Step 7 of encode_folder: the tile files, plane by plane.
TileData(symbols, voxels, start, end) ==
    [symbols |-> SubSeq(symbols, start + 1, end),
     angles |-> SubSeq(voxels.angles, start + 1, end),
     retardances |-> SubSeq(voxels.retardances, start + 1, end)]

NumTiles(symbols) == (Len(symbols) + TileSize - 1) \div TileSize
NumPlanes(symbols) == (NumTiles(symbols) + TilesPerPlane - 1) \div TilesPerPlane

\* The voxels directory afterwards: plane directory name -> tile file name ->
\* tile content.
WriteTiles(symbols, voxels) ==
    LET n_tiles == NumTiles(symbols)
        tiles_in(plane_idx) == Min(TilesPerPlane, n_tiles - plane_idx * TilesPerPlane)
        tile(plane_idx, tile_idx) ==
            LET start == (plane_idx * TilesPerPlane + tile_idx) * TileSize
            IN  TileData(symbols, voxels, start, Min(start + TileSize, Len(symbols)))
    IN  [pn \in { PlaneName(p) : p \in 0..(NumPlanes(symbols) - 1) } |->
           [tn \in { TileName(t) : t \in 0..(tiles_in(PlaneIndex(pn)) - 1) } |->
              tile(PlaneIndex(pn), TileIndex(tn))]]

RECURSIVE AddFiles(_, _, _)
\* manifest.add_file for the first n entries of the packer's metadata
AddFiles(data, files, n) ==
    IF n = 0 THEN data
    ELSE LET d == AddFiles(data, files, n - 1)
         IN  [d EXCEPT !.files = Append(@, [path |-> files[n].path, size |-> files[n].size,
                                             sha256 |-> files[n].sha256])]

\* Step 8 of encode_folder: the manifest as filled in before save.
BuildManifest(profile, params, codec_info, seed, n_planes, files, root) ==
    LET encoding ==
            [profile_params |-> params,
             compression |-> [codec |-> params.compression, info |-> codec_info],
             ecc |-> [ldpc |-> [n |-> LdpcN, k |-> LdpcK(params), rate |-> DefaultLdpcRate],
                      reed_solomon |-> [n |-> RsN, k |-> RsK,
                                        overhead |-> params.rs_overhead]],
             voxel |-> VoxelRecord(params.voxel_mode),
             interleaving |-> [seed |-> seed, span |-> params.interleave_span,
                               depth |-> params.interleave_depth]]
        geometry == [tiles_x |-> 8, tiles_y |-> 8, planes |-> n_planes,
                     total_tiles |-> 8 * 8 * n_planes]
        d == [EmptyManifest EXCEPT !.profile = profile, !.encoding = encoding]
    IN  [AddFiles(SetKey(d, "geometry", geometry), files, Len(files))
            EXCEPT !.integrity = SetKey(<<>>, "merkle_root", root)]

\* encode_folder(folder, output_dir, profile, seed): every value the steps
\* compute, and what is left in output_dir (the tile files and manifest.json).
EncodeFolder(folder, listing, profile, seed, draw) ==
    LET params == ProfileParams(profile)
        packed == PackFolderToBytes(folder, listing)
        comp == CompressData(packed.blob, params.compression_level)
        shards == CreateShards(comp.compressed, ShardSize)
        k == LdpcK(params)
        H == GenerateParityMatrix(LdpcN, k)
        encoded_shards == Arr([s \in 1..Len(shards) |-> EncodeShard(H, k, shards[s])],
                              Len(shards))
        all_bits == Flatten(encoded_shards, Len(shards))
        perm == PermutationOf(Len(all_bits), draw)
        interleaved == BlockInterleave(all_bits, perm).interleaved
        symbols == BitsToSymbols(BitsPerVoxel(params.voxel_mode), interleaved)
        voxels == SymbolsToVoxels(params.voxel_mode, symbols)
        root == Hex(RootOf(BuildTree(shards, 2)))
        manifest == Save(BuildManifest(profile, params, comp.info, seed,
                                       NumPlanes(symbols), packed.metadata.files, root))
    IN  [blob |-> packed.blob, compressed |-> comp.compressed, shards |-> shards,
         all_bits |-> all_bits, perm |-> perm, interleaved |-> interleaved,
         symbols |-> symbols, voxels |-> WriteTiles(symbols, voxels),
         manifest |-> manifest.data, manifest_file |-> manifest.file]

\* Step 1 of decode_archive: the tile files in the order of the two loops
\* (sorted plane directory names, then sorted tile file names), and all_symbols
\* after the last extend.
ReadTiles(voxels) ==
    LET planes == Sorted(DOMAIN voxels)
        tiles_of(p) ==
            LET names == Sorted(DOMAIN voxels[planes[p]])
            IN  Arr([t \in 1..Len(names) |-> [plane |-> planes[p], tile |-> names[t]]],
                    Len(names))
        order == Flatten(Arr([p \in 1..Len(planes) |-> tiles_of(p)], Len(planes)),
                         Len(planes))
    IN  [order |-> order,
         symbols |-> Flatten(Arr([i \in 1..Len(order) |->
                                    voxels[order[i].plane][order[i].tile].symbols],
                                 Len(order)), Len(order))]

\* Step 4 of decode_archive: blocks of n bits, the last zero-padded, each
\* decoded with decode_hard (its success flag is dropped), then packed to bytes.
LdpcDecodeAll(n, k, bits_encoded) ==
    LET H == GenerateParityMatrix(n, k)
        blocks == (Len(bits_encoded) + n - 1) \div n
        decoded_bits == Arr([b \in 1..blocks |->
                                DecodeHard(H, k, PaddedBlock(bits_encoded, b, n),
                                           DefaultMaxIter).bits], blocks)
    IN  PackBits(Flatten(decoded_bits, blocks))

\* Step 4 of decode_archive: the blocks for which decode_hard returned
\* success = False.
LdpcFailedBlocks(n, k, bits_encoded) ==
    LET H == GenerateParityMatrix(n, k)
    IN  { b \in 1..((Len(bits_encoded) + n - 1) \div n) :
            ~DecodeHard(H, k, PaddedBlock(bits_encoded, b, n), DefaultMaxIter).success }

\* The last lines of decode_archive: the manifest's files whose recovered copy
\* exists with another hash (each is printed as a warning).
HashWarnings(files, written) ==
    { i \in 1..Len(files) :
        /\ files[i].path \in DOMAIN written
        /\ Sha256Hex(written[files[i].path]) # files[i].sha256 }

\* decode_archive(voxel_dir, output_dir): `draw` is what the generator yields
\* for the seed of the manifest and the length of the demapped bits.  error is
\* "none" when the call returns.  ldpc_failed holds the blocks whose
\* decode_hard reported no success and errors_pos the erasure positions given
\* to rs_codec.decode (its default, None: the call passes none).  perm and
\* bits_encoded are the permutation regenerated and the deinterleaved bits.
DecodeArchive(manifest_file, voxels, draw) ==
    LET loaded == Load(manifest_file)
        failed(error) == [error |-> error, written |-> <<>>, warnings |-> {},
                          bits |-> 0, decoded_bytes |-> <<>>, ldpc_failed |-> {},
                          errors_pos |-> None, perm |-> <<>>, bits_encoded |-> <<>>]
    IN  IF loaded.raised THEN failed("ValueError: Manifest integrity check failed")
        ELSE
        LET encoding == loaded.data.encoding
            symbols == ReadTiles(voxels).symbols
            bits_interleaved == SymbolsToBits(BitsPerVoxel(encoding.voxel.mode), symbols)
            perm == PermutationOf(Len(bits_interleaved), draw)
            bits_encoded == BlockDeinterleave(bits_interleaved, perm, 0)
            decoded_bytes == LdpcDecodeAll(encoding.ecc.ldpc.n, encoding.ecc.ldpc.k,
                                           bits_encoded)
            recovered == RsDecode(decoded_bytes)
            after(error) == [failed(error) EXCEPT
                               !.bits = Len(bits_interleaved),
                               !.decoded_bytes = decoded_bytes,
                               !.perm = perm, !.bits_encoded = bits_encoded,
                               !.ldpc_failed = LdpcFailedBlocks(encoding.ecc.ldpc.n,
                                                                encoding.ecc.ldpc.k,
                                                                bits_encoded)]
        IN  IF recovered = None
            THEN after("ValueError: Reed-Solomon decoding failed - too many errors")
            ELSE LET decompressed == DecompressData(recovered)
                 IN  IF ~decompressed.ok THEN after("ZstdError")
                     ELSE LET unpacked == UnpackBytesToFolder(decompressed.data)
                          IN  IF unpacked.raised
                              THEN after("ValueError: Invalid archive format")
                              ELSE [after("none") EXCEPT
                                      !.written = unpacked.written,
                                      !.warnings = HashWarnings(loaded.data.files,
                                                                unpacked.written)]

\* The calls explored: a folder (empty, or one file at the root or in a
\* directory), a profile name and a seed.
PipeFolders ==
    { <<>> }
    \cup { [p \in {<<NameB>>} |-> [data |-> c, readable |-> TRUE]] :
             c \in {<<>>, <<120>>, <<104, 105, 33>>} }
    \cup { [p \in {<<DirD, NameA>>} |-> [data |-> c, readable |-> TRUE]] : c \in {<<>>, <<120>>} }
ProfileNames == {"A", "B", "C"}
PipeSeeds == {42, 7}

InitPipe ==
    /\ \E folder \in PipeFolders, profile \in ProfileNames, seed \in PipeSeeds :
         pipe = [pc |-> "start", folder |-> folder, profile |-> profile, seed |-> seed,
                 draw |-> 0, enc |-> None, voxels |-> <<>>, manifest_file |-> None,
                 dec |-> None]
    /\ ldpc = Idle /\ ilv = Idle /\ vox = Idle /\ merkle = Idle
    /\ mani = Idle /\ pack = Idle

\* encode_folder(folder, output_dir, profile, seed)
EncodeFolderCall ==
    /\ pipe.pc = "start"
    /\ \E draw \in PermDraws :
         LET r == EncodeFolder(pipe.folder, <<DirD, DirS>>, pipe.profile, pipe.seed, draw)
         IN  pipe' = [pipe EXCEPT !.pc = "encoded", !.draw = draw, !.enc = r,
                                  !.voxels = r.voxels, !.manifest_file = r.manifest_file]
    /\ UNCHANGED <<ldpc, ilv, vox, merkle, mani, pack>>

\* decode_archive(voxel_dir, output_dir) on what encode_folder left.  The
\* generator is the one encode used when seed and length are the same.
DecodeArchiveCall ==
    /\ pipe.pc = "encoded"
    /\ LET symbols == ReadTiles(pipe.voxels).symbols
           mode == LoadJson(pipe.manifest_file).encoding.voxel.mode
           length == Len(symbols) * BitsPerVoxel(mode)
       IN  \E draw \in PermDraws :
             /\ (length = Len(pipe.enc.all_bits)) => draw = pipe.draw
             /\ pipe' = [pipe EXCEPT !.pc = "decoded",
                                     !.dec = DecodeArchive(pipe.manifest_file,
                                                           pipe.voxels, draw)]
    /\ UNCHANGED <<ldpc, ilv, vox, merkle, mani, pack>>

NextPipe == EncodeFolderCall \/ DecodeArchiveCall

SpecPipe == InitPipe /\ [][NextPipe]_vars

\* C1: end-to-end round trip.  For profiles A and B and every seed,
\* decode_archive on the untouched output of encode_folder returns, and the
\* files it wrote are the folder's files at the same relative paths with the
\* same bytes.
C1_EndToEndRoundTrip ==
    (pipe.pc = "decoded" /\ pipe.profile \in {"A", "B"}) =>
        /\ pipe.dec.error = "none"
        /\ DOMAIN pipe.dec.written = DOMAIN FolderBytes(pipe.folder)
        /\ \A t \in DOMAIN pipe.dec.written :
             pipe.dec.written[t] = FolderBytes(pipe.folder)[t]

\* C17: unknown profile rejection.  encode_folder with a profile name other
\* than "A" or "B" fails: the call never completes and there is no manifest.
C17_UnknownProfileRejection ==
    pipe.profile \notin {"A", "B"} =>
        /\ pipe.pc \notin {"encoded", "decoded"}
        /\ pipe.manifest_file = None

\* C18: LDPC failure becomes an erasure.  Whenever decode_hard reported no
\* success for a block, decode_archive gave rs_codec.decode erasure positions,
\* and they hold the position of every failed block.
C18_LdpcFailureIsErasure ==
    (pipe.pc = "decoded" /\ pipe.dec.ldpc_failed # {}) =>
        /\ pipe.dec.errors_pos # None
        /\ \A b \in pipe.dec.ldpc_failed : b - 1 \in pipe.dec.errors_pos

\* The chunks rs_codec.decode cuts the bytes into, and those among them that
\* RSCodec.decode cannot correct.
RsChunk(bytes, c) == SubSeq(bytes, (c - 1) * RsN + 1, Min(c * RsN, Len(bytes)))
RsFailedChunks(bytes) ==
    { c \in 1..((Len(bytes) + RsN - 1) \div RsN) : ~RsDecodeChunk(RsChunk(bytes, c)).ok }

\* C19: Reed-Solomon failure is fatal and leaves no output.  If a chunk of the
\* bytes given to rs_codec.decode cannot be corrected, decode returns None,
\* whatever the number of chunks before it that decoded, and decode_archive
\* raises its Reed-Solomon error with no recovered file written.
C19_RsFailureIsFatal ==
    (pipe.pc = "decoded" /\ RsFailedChunks(pipe.dec.decoded_bytes) # {}) =>
        /\ RsDecode(pipe.dec.decoded_bytes) = None
        /\ pipe.dec.error = "ValueError: Reed-Solomon decoding failed - too many errors"
        /\ pipe.dec.written = <<>>

\* C19 witness: the first chunk decoded and a later chunk failed.
C19_Witness ==
    /\ pipe.pc = "decoded"
    /\ RsFailedChunks(pipe.dec.decoded_bytes) # {}
    /\ 1 \notin RsFailedChunks(pipe.dec.decoded_bytes)
    /\ pipe.dec.error = "ValueError: Reed-Solomon decoding failed - too many errors"

(***************************************************************************)
(* decode_archive on archive directories that encode_folder did not write: *)
(* tiles and a manifest made so that every step of the decode goes         *)
(* through, with a Merkle root in the manifest that is, or is not, the     *)
(* root of the shards the decode recovers.                                 *)
(***************************************************************************)

\* A word of the code whose first k bits are msg: decode_hard returns msg from
\* it.  Profile B's code has such a word for every message.
MadeBlock(H, k, n, msg) ==
    msg \o (CHOOSE p \in BitVectors(n - k) : SumSeq(Syndrome(H, msg \o p)) = 0)

\* The archive directory: the folder packed and compressed, Reed-Solomon
\* encoded, cut into messages of k bits, each in a block that decode_hard
\* reads back, the bits padded to whole symbols, shuffled with the
\* generator's permutation and laid out in tiles; and a saved manifest with
\* `root` as integrity.merkle_root.
MadeArchive(folder, profile, seed, draw, root) ==
    LET params == ProfileParams(profile)
        packed == PackFolderToBytes(folder, <<DirD, DirS>>)
        comp == CompressData(packed.blob, params.compression_level)
        rs_bits == UnpackBits(RsEncode(comp.compressed))
        k == LdpcK(params)
        H == GenerateParityMatrix(LdpcN, k)
        blocks == (Len(rs_bits) + k - 1) \div k
        encoded == Flatten(Arr([b \in 1..blocks |->
                                  MadeBlock(H, k, LdpcN, PaddedBlock(rs_bits, b, k))],
                               blocks), blocks)
        b == BitsPerVoxel(params.voxel_mode)
        all_bits == encoded \o [z \in 1..((b - (Len(encoded) % b)) % b) |-> 0]
        perm == PermutationOf(Len(all_bits), draw)
        symbols == BitsToSymbols(b, BlockInterleave(all_bits, perm).interleaved)
        manifest == Save(BuildManifest(profile, params, comp.info, seed,
                                       NumPlanes(symbols), packed.metadata.files, root))
    IN  [all_bits |-> all_bits,
         voxels |-> WriteTiles(symbols, SymbolsToVoxels(params.voxel_mode, symbols)),
         manifest_file |-> manifest.file]

\* The Merkle root of the shards of the bytes the Reed-Solomon step recovers.
RecoveredRoot(decoded_bytes) ==
    Hex(RootOf(BuildTree(CreateShards(RsDecode(decoded_bytes), ShardSize), 2)))

\* The root of some other shards.
OtherRoot == Hex(RootOf(BuildTree(<<<<1>>>>, 2)))

InitMade ==
    /\ \E folder \in PipeFolders, seed \in PipeSeeds, draw \in PermDraws :
         pipe = [pc |-> "start", folder |-> folder, profile |-> "B", seed |-> seed,
                 draw |-> draw, enc |-> None, voxels |-> <<>>, manifest_file |-> None,
                 dec |-> None, resealed |-> FALSE]
    /\ ldpc = Idle /\ ilv = Idle /\ vox = Idle /\ merkle = Idle
    /\ mani = Idle /\ pack = Idle

\* The archive directory is made, with the root of other shards in its
\* manifest.
MakeArchive ==
    /\ pipe.pc = "start"
    /\ LET made == MadeArchive(pipe.folder, pipe.profile, pipe.seed, pipe.draw, OtherRoot)
       IN  pipe' = [pipe EXCEPT !.pc = "encoded", !.enc = [all_bits |-> made.all_bits],
                                !.voxels = made.voxels,
                                !.manifest_file = made.manifest_file]
    /\ UNCHANGED <<ldpc, ilv, vox, merkle, mani, pack>>

\* After a decode that went through, the manifest is written again with the
\* root of the recovered shards, for the next decode.
Reseal ==
    /\ pipe.pc = "decoded" /\ pipe.dec.error = "none" /\ ~pipe.resealed
    /\ LET data == LoadJson(pipe.manifest_file)
           root == RecoveredRoot(pipe.dec.decoded_bytes)
       IN  pipe' = [pipe EXCEPT
                      !.pc = "encoded", !.resealed = TRUE, !.dec = None,
                      !.manifest_file =
                          Save([data EXCEPT !.integrity =
                                  SetKey(<<>>, "merkle_root", root)]).file]
    /\ UNCHANGED <<ldpc, ilv, vox, merkle, mani, pack>>

NextMade == MakeArchive \/ DecodeArchiveCall \/ Reseal

SpecMade == InitMade /\ [][NextMade]_vars

\* C20: Merkle verification at decode.  decode_archive returns normally only
\* if the root of the shards it recovered is integrity.merkle_root of the
\* manifest.
C20_MerkleVerifiedAtDecode ==
    (pipe.pc = "decoded" /\ pipe.dec.error = "none") =>
        LoadJson(pipe.manifest_file).integrity.merkle_root
            = RecoveredRoot(pipe.dec.decoded_bytes)

(***************************************************************************)
(* Steps 7 of encode_folder and 1 of decode_archive on their own: a symbol *)
(* stream is laid out in tile files, tile files may go missing, and the    *)
(* files are read back.  Streams are short (up to MaxStream symbols), or   *)
(* one symbol longer than fits in the planes whose index has PlaneDigits   *)
(* digits.                                                                 *)
(***************************************************************************)

MaxStream == 12
StreamLengths == (0..MaxStream) \cup {(10 ^ PlaneDigits) * TilesPerPlane * TileSize + 1}

\* A stream of 3-bit symbols whose values change with the position.
StreamOf(length) == Arr([i \in 1..length |-> (i - 1) % 8], length)

InitTiles ==
    /\ \E length \in StreamLengths :
         pipe = [pc |-> "stream", mode |-> "3bit", symbols |-> StreamOf(length),
                 voxels |-> <<>>, lost |-> {}, read |-> None]
    /\ ldpc = Idle /\ ilv = Idle /\ vox = Idle /\ merkle = Idle
    /\ mani = Idle /\ pack = Idle

\* encode_folder, step 7
WriteTilesCall ==
    /\ pipe.pc = "stream"
    /\ pipe' = [pipe EXCEPT !.pc = "tiled",
                            !.voxels = WriteTiles(pipe.symbols,
                                                  SymbolsToVoxels(pipe.mode, pipe.symbols))]
    /\ UNCHANGED <<ldpc, ilv, vox, merkle, mani, pack>>

\* A tile file of a short stream goes missing before decode.
LoseTile ==
    /\ pipe.pc = "tiled" /\ Len(pipe.symbols) <= MaxStream
    /\ \E plane \in DOMAIN pipe.voxels :
         \E tile \in DOMAIN pipe.voxels[plane] :
           pipe' = [pipe EXCEPT !.voxels[plane] = DropKey(@, tile),
                                !.lost = @ \cup {<<plane, tile>>}]
    /\ UNCHANGED <<ldpc, ilv, vox, merkle, mani, pack>>

\* decode_archive, step 1
ReadTilesCall ==
    /\ pipe.pc = "tiled"
    /\ pipe' = [pipe EXCEPT !.pc = "read", !.read = ReadTiles(pipe.voxels)]
    /\ UNCHANGED <<ldpc, ilv, vox, merkle, mani, pack>>

NextTiles == WriteTilesCall \/ LoseTile \/ ReadTilesCall

SpecTiles == InitTiles /\ [][NextTiles]_vars

\* Position of a tile in the numeric (plane_id, tile_id) order.
GlobalTile(entry) == PlaneIndex(entry.plane) * TilesPerPlane + TileIndex(entry.tile)

\* C11: tile layout round trip.  With no tile missing: every tile holds at
\* most TileSize symbols and all but the last exactly TileSize, a plane holds
\* at most TilesPerPlane tiles, decode reads the tiles in numeric
\* (plane_id, tile_id) order, and the symbols read are the stream written.
C11_TileLayoutRoundTrip ==
    (pipe.pc = "read" /\ pipe.lost = {}) =>
        LET order == pipe.read.order
        IN  /\ \A i \in 1..Len(order) :
                 LET held == Len(pipe.voxels[order[i].plane][order[i].tile].symbols)
                 IN  /\ held <= TileSize
                     /\ GlobalTile(order[i]) < NumTiles(pipe.symbols) - 1 => held = TileSize
            /\ \A plane \in DOMAIN pipe.voxels :
                 Cardinality(DOMAIN pipe.voxels[plane]) <= TilesPerPlane
            /\ \A i \in 1..Len(order) : GlobalTile(order[i]) = i - 1
            /\ pipe.read.symbols = pipe.symbols

\* Where the i-th tile read landed in all_symbols: the number of symbols that
\* the tiles read before it contributed.
LandedAt(i) ==
    LET order == pipe.read.order
    IN  SumTo(Arr([j \in 1..Len(order) |->
                     Len(pipe.voxels[order[j].plane][order[j].tile].symbols)], Len(order)),
              i - 1)

\* C12: survivor placement under tile loss.  Whatever tiles are missing, the
\* symbols of every surviving tile are at the tile's original position
\* (plane_id * TilesPerPlane + tile_id) * TileSize of the stream decode hands
\* on, so the ranges of the missing tiles stay as gaps.
C12_SurvivorPlacement ==
    (pipe.pc = "read" /\ pipe.lost # {}) =>
        \A i \in 1..Len(pipe.read.order) :
            LET entry == pipe.read.order[i]
                held == pipe.voxels[entry.plane][entry.tile].symbols
            IN  /\ LandedAt(i) = GlobalTile(entry) * TileSize
                /\ SubSeq(pipe.read.symbols, GlobalTile(entry) * TileSize + 1,
                          GlobalTile(entry) * TileSize + Len(held)) = held

(***************************************************************************)
(* ReedSolomonCodec.create_shards on its own: blobs of up to MaxBlob bytes *)
(* and shard sizes up to MaxShardSize.                                     *)
(***************************************************************************)

MaxBlob == 27
MaxShardSize == 3

\* Two blobs of each length, their bytes changing with the position.
BlobOf(length, step) == Arr([i \in 1..length |-> (i * step) % 256], length)

InitShards ==
    /\ \E length \in 0..MaxBlob, step \in {37, 101}, shard_size \in 1..MaxShardSize :
         pipe = [pc |-> "blob", data |-> BlobOf(length, step), shard_size |-> shard_size,
                 shards |-> <<>>]
    /\ ldpc = Idle /\ ilv = Idle /\ vox = Idle /\ merkle = Idle
    /\ mani = Idle /\ pack = Idle

\* rs_codec.create_shards(data, shard_size)
CreateShardsCall ==
    /\ pipe.pc = "blob"
    /\ pipe' = [pipe EXCEPT !.pc = "sharded",
                            !.shards = CreateShards(pipe.data, pipe.shard_size)]
    /\ UNCHANGED <<ldpc, ilv, vox, merkle, mani, pack>>

SpecShards == InitShards /\ [][CreateShardsCall]_vars

\* C13: shard fan-out structure.  create_shards returns D = ceil(L/S) data
\* shards followed by P = floor(D * (n/k - 1)) = floor(D * (n - k) / k) parity
\* shards, each of length S; the data shards concatenated are the blob
\* followed by zero bytes only; every parity shard is the bytewise XOR of the
\* data shards.
C13_ShardFanOut ==
    pipe.pc = "sharded" =>
        LET S == pipe.shard_size
            L == Len(pipe.data)
            D == (L + S - 1) \div S
            P == (D * (RsN - RsK)) \div RsK
            shards == pipe.shards
        IN  /\ Len(shards) = D + P
            /\ \A i \in 1..Len(shards) : Len(shards[i]) = S
            /\ Len(shards) >= D =>
                 /\ Flatten(shards, D) = pipe.data \o [z \in 1..(D * S - L) |-> 0]
                 /\ \A i \in (D + 1)..Len(shards) : \A b \in 1..S :
                      shards[i][b] = XorAll(shards, D, b)

\* C21: self-describing manifest.  The manifest encode_folder writes records,
\* besides the LDPC n, k and rate, the seed of the LDPC matrix; besides the
\* Reed-Solomon n, k and overhead, the shard size and the parity scheme; and
\* besides the interleaver's seed, span and depth, its generator family.
C21_SelfDescribingManifest ==
    pipe.pc \in {"encoded", "decoded"} =>
        LET encoding == pipe.enc.manifest.encoding
        IN  /\ DOMAIN encoding.ecc.ldpc \ {"n", "k", "rate"} # {}
            /\ Cardinality(DOMAIN encoding.ecc.reed_solomon \ {"n", "k", "overhead"}) >= 2
            /\ DOMAIN encoding.interleaving \ {"seed", "span", "depth"} # {}

(***************************************************************************)
(* VoxelMapper.voxels_to_symbols on one measured voxel.  Measured angles   *)
(* lie on a grid of AngleStep tenths of a degree from -MaxTurns to         *)
(* MaxTurns + 1 half turns, measured retardances on a grid of RetardStep   *)
(* hundredths of a wavelength.                                             *)
(***************************************************************************)

MaxTurns == 2
AngleStep == 75
RetardStep == 5

MeasuredAngles == { a * AngleStep : a \in (-(MaxTurns * 1800) \div AngleStep)..(((MaxTurns + 1) * 1800) \div AngleStep) }
MeasuredRetardances == { r * RetardStep : r \in 0..(125 \div RetardStep) }

\* angle_diff = min(|angle - ref|, |angle - ref + 180|, |angle - ref - 180|)
AngleDiff(angle, ref_angle) ==
    Min(Abs(angle - ref_angle),
        Min(Abs(angle - ref_angle + 1800), Abs(angle - ref_angle - 1800)))

\* distance = angle_diff + retard_diff * 100, in tenths
Distance(table, symbol, angle, retard) ==
    AngleDiff(angle, table[symbol][1]) + 10 * Abs(retard - table[symbol][2])

\* voxels_to_symbols for one voxel: the first symbol of the table, in its
\* order, at the least distance (a later symbol replaces the best one only if
\* it is strictly nearer).
VoxelToSymbol(mode, angle, retard) ==
    LET table == BuildSymbolTable(mode)
    IN  CHOOSE s \in DOMAIN table :
          /\ \A t \in DOMAIN table :
               Distance(table, s, angle, retard) <= Distance(table, t, angle, retard)
          /\ \A t \in 0..(s - 1) :
               Distance(table, s, angle, retard) < Distance(table, t, angle, retard)

\* voxels_to_symbols(angles, retardances) on a measured voxel
VoxelsToSymbolsCall ==
    /\ vox.pc = "new"
    /\ \E angle \in MeasuredAngles, retard \in MeasuredRetardances :
         vox' = [vox EXCEPT !.pc = "read", !.angles = <<angle>>,
                            !.retardances = <<retard>>,
                            !.symbols = <<VoxelToSymbol(vox.mode, angle, retard)>>]
    /\ UNCHANGED <<ldpc, ilv, merkle, mani, pack, pipe>>

SpecRead == InitVox /\ [][VoxelsToSymbolsCall]_vars

\* Distance on the circle of 180 degrees between a measured angle and a
\* reference angle.
CircularDistance(angle, ref_angle) ==
    Min(Abs((angle % 1800) - ref_angle), 1800 - Abs((angle % 1800) - ref_angle))

\* The symbol whose reference angle and reference retardance are both nearer
\* to the measurement than any other reference.
SnapsTo(mode, s, angle, retard) ==
    LET table == BuildSymbolTable(mode)
    IN  /\ \A a \in { AnglesOf(mode)[i] : i \in 1..Orientations(mode) } \ {table[s][1]} :
             CircularDistance(angle, table[s][1]) < CircularDistance(angle, a)
        /\ \A r \in { RetardancesOf(mode)[i] : i \in 1..RetardanceLevels(mode) } \ {table[s][2]} :
             Abs(retard - table[s][2]) < Abs(retard - r)

\* C22: hard voxel decode.  In each mode, a measured voxel whose angle, taken
\* mod 180 degrees on the circle, and whose retardance are each nearer to the
\* references of symbol s than to any other reference, is read as s.
C22_HardVoxelDecode ==
    vox.pc = "read" =>
        \A s \in 0..(NumSymbols(vox.mode) - 1) :
            SnapsTo(vox.mode, s, vox.angles[1], vox.retardances[1])
                => vox.symbols[1] = s

\* C26: seed-only permutation.  Whatever calls an Interleaver instance served
\* before, the permutation block_interleave returns for a vector of length N
\* is the one a new generator of the same seed yields for N: the one shuffled
\* with the first values of the seed's stream.
C26_SeedOnlyPermutation ==
    ilv.pc \in {"interleaved", "restored"} =>
        ilv.perm = Permutation(Len(ilv.data),
                               SubSeq(ilv.stream, 1, DrawsFor(Len(ilv.data))))

\* C23: permutation regeneration.  For both profiles and every seed, the
\* permutation decode_archive regenerates is the permutation encode_folder
\* applied, entry for entry, and the deinterleaved bits are the LDPC-encoded
\* bits that were interleaved.
C23_PermutationRegenerated ==
    (pipe.pc = "decoded" /\ pipe.profile \in {"A", "B"}) =>
        /\ pipe.dec.perm = pipe.enc.perm
        /\ pipe.dec.bits_encoded = pipe.enc.all_bits

\* C24: outer-code and block-padding inverse.  On an untouched archive of
\* profile A or B, the Reed-Solomon step of decode_archive succeeds and the
\* bytes it hands to decompression are the compressed blob that
\* encode_folder cut into shards.
C24_OuterCodeInverse ==
    (pipe.pc = "decoded" /\ pipe.profile \in {"A", "B"}) =>
        /\ RsDecodeChunks(pipe.dec.decoded_bytes).ok
        /\ RsDecodeChunks(pipe.dec.decoded_bytes).data = pipe.enc.compressed

(***************************************************************************)
(* simulate/channel.py: DamageModel.apply_tile_loss on bit vectors of up   *)
(* to MaxData bits, tiles of up to MaxTile positions and loss fractions    *)
(* that are a whole number of quarters (exact as floating-point numbers,   *)
(* so that int(n_tiles * loss_fraction) is the exact floor).               *)
(***************************************************************************)

MaxData == 5
MaxTile == 3
Quarters == 0..4

\* n_tiles = (len(data) + tile_size - 1) // tile_size
NTiles(len, tile_size) == (len + tile_size - 1) \div tile_size

\* n_lost = int(n_tiles * loss_fraction), loss_fraction = quarters / 4
NLost(n_tiles, quarters) == (n_tiles * quarters) \div 4

\* The positions start..end-1 of a tile, counted from 1.
TilePositions(tile_idx, tile_size, len) ==
    (tile_idx * tile_size + 1)..Min(tile_idx * tile_size + tile_size, len)

\* apply_tile_loss with the mask left as np.ones made it.
ApplyTileLossMaskKept(data, tile_size, lost_tiles, random) ==
    [damaged |-> Arr([i \in 1..Len(data) |->
                        IF \E t \in lost_tiles : i \in TilePositions(t, tile_size, Len(data))
                        THEN random[i] ELSE data[i]], Len(data)),
     erasure_mask |-> Arr([i \in 1..Len(data) |-> TRUE], Len(data)),
     data |-> data]

\* apply_tile_loss once rng.choice has selected lost_tiles: a copy of the data
\* with the positions of every selected tile overwritten by what rng.integers
\* yields (random, read at the position it lands on), the mask False on them,
\* and the caller's array as the call leaves it.
ApplyTileLoss(data, tile_size, lost_tiles, random) ==
    [damaged |-> Arr([i \in 1..Len(data) |->
                        IF \E t \in lost_tiles : i \in TilePositions(t, tile_size, Len(data))
                        THEN random[i] ELSE data[i]], Len(data)),
     erasure_mask |-> Arr([i \in 1..Len(data) |->
                             ~\E t \in lost_tiles :
                                 i \in TilePositions(t, tile_size, Len(data))], Len(data)),
     data |-> data]

InitLoss ==
    /\ \E len \in 0..MaxData : \E data \in BitVectors(len) :
         \E tile_size \in 1..MaxTile, quarters \in Quarters :
           pipe = [pc |-> "data", original |-> Arr(data, len), data |-> Arr(data, len),
                   tile_size |-> tile_size, quarters |-> quarters,
                   damaged |-> <<>>, erasure_mask |-> <<>>]
    /\ ldpc = Idle /\ ilv = Idle /\ vox = Idle /\ merkle = Idle
    /\ mani = Idle /\ pack = Idle

\* damage_model.apply_tile_loss(data, tile_size, loss_fraction):
\* rng.choice(n_tiles, n_lost, replace=False) yields some n_lost distinct tiles.
ApplyTileLossCall ==
    /\ pipe.pc = "data"
    /\ LET n_tiles == NTiles(Len(pipe.data), pipe.tile_size)
           n_lost == NLost(n_tiles, pipe.quarters)
       IN  \E lost_tiles \in { c \in SUBSET (0..(n_tiles - 1)) : Cardinality(c) = n_lost } :
             \E random \in BitVectors(Len(pipe.data)) :
               LET r == ApplyTileLoss(pipe.data, pipe.tile_size, lost_tiles, random)
               IN  pipe' = [pipe EXCEPT !.pc = "damaged", !.data = r.data,
                                        !.damaged = r.damaged,
                                        !.erasure_mask = r.erasure_mask]
    /\ UNCHANGED <<ldpc, ilv, vox, merkle, mani, pack>>

SpecLoss == InitLoss /\ [][ApplyTileLossCall]_vars

\* The tiles all of whose positions the mask marks as erased.
ErasedTiles ==
    { t \in 0..(NTiles(Len(pipe.original), pipe.tile_size) - 1) :
        \A i \in TilePositions(t, pipe.tile_size, Len(pipe.original)) :
            ~pipe.erasure_mask[i] }

\* C25: tile-loss injection.  The mask is False on exactly
\* int(ceil(len / tile_size) * f) whole tiles and True on every other
\* position (n_lost * tile_size positions when the length is a multiple of
\* tile_size); the damaged data is the input wherever the mask is True; and
\* the input array is as it was.
C25_TileLossInjection ==
    pipe.pc = "damaged" =>
        LET len == Len(pipe.original)
            n_tiles == (len + pipe.tile_size - 1) \div pipe.tile_size
            n_lost == (n_tiles * pipe.quarters) \div 4
        IN  /\ Len(pipe.damaged) = len /\ Len(pipe.erasure_mask) = len
            /\ Cardinality(ErasedTiles) = n_lost
            /\ \A i \in 1..len :
                 pipe.erasure_mask[i] <=> ((i - 1) \div pipe.tile_size) \notin ErasedTiles
            /\ len % pipe.tile_size = 0 =>
                 Cardinality({ i \in 1..len : ~pipe.erasure_mask[i] })
                     = n_lost * pipe.tile_size
            /\ \A i \in 1..len : pipe.erasure_mask[i] => pipe.damaged[i] = pipe.original[i]
            /\ pipe.data = pipe.original

\* C25 witness: two tiles out of three were lost, the short last one among
\* them, the data was changed on a lost tile, and a tile survived.
C25_Witness ==
    /\ pipe.pc = "damaged"
    /\ Len(pipe.original) = MaxData /\ pipe.tile_size = 2
    /\ Cardinality(ErasedTiles) = 2
    /\ ~pipe.erasure_mask[MaxData]
    /\ pipe.damaged # pipe.original
    /\ \E i \in 1..MaxData : pipe.erasure_mask[i]

(***************************************************************************)
(* unpack_bytes_to_folder on well-formed blobs whose record paths are      *)
(* plain, absolute or climb with "..": where each file is written.        *)
(***************************************************************************)

\* output_dir, as the names from the root of the file system: /o/u
OutputDir == <<<<111>>, <<117>>>>

RECURSIVE SplitPath(_, _)
\* The names of a path text between its "/" characters (empty names dropped);
\* `name` is the name being read.
SplitPath(text, name) ==
    IF text = <<>> THEN (IF name = <<>> THEN <<>> ELSE <<name>>)
    ELSE IF Head(text) = 47
         THEN (IF name = <<>> THEN <<>> ELSE <<name>>) \o SplitPath(Tail(text), <<>>)
         ELSE SplitPath(Tail(text), Append(name, Head(text)))

RECURSIVE Climb(_, _)
\* The file system's walk over the names: "." stays, ".." goes up (the root is
\* its own parent).
Climb(at, names) ==
    IF names = <<>> THEN at
    ELSE IF Head(names) = <<46>> THEN Climb(at, Tail(names))
    ELSE IF Head(names) = <<46, 46>>
         THEN Climb(SubSeq(at, 1, Len(at) - (IF at = <<>> THEN 0 ELSE 1)), Tail(names))
         ELSE Climb(Append(at, Head(names)), Tail(names))

\* output_path = output_dir / filename, as the file write_bytes creates: an
\* absolute filename replaces output_dir.
OutputPath(output_dir, filename) ==
    IF filename # <<>> /\ Head(filename) = 47
    THEN Climb(<<>>, SplitPath(filename, <<>>))
    ELSE Climb(output_dir, SplitPath(filename, <<>>))

\* One record of a blob, and the record paths explored: b, d/a, ../b, /b,
\* d/../b and d/../../b.
RecordOf(path, data) ==
    FileMarker \o Utf8Encode(path) \o <<0>> \o ToBytes(Len(data), 8) \o data
RecordPaths ==
    { <<98>>, <<100, 47, 97>>, <<46, 46, 47, 98>>, <<47, 98>>,
      <<100, 47, 46, 46, 47, 98>>, <<100, 47, 46, 46, 47, 46, 46, 47, 98>> }
RecordBlobs ==
    LET records == { RecordOf(p, d) : p \in RecordPaths, d \in {<<>>, <<120>>} }
    IN  { Magic \o r : r \in records } \cup { Magic \o r \o q : r \in records, q \in records }

InitConfine ==
    /\ \E blob \in RecordBlobs :
         pack = [pc |-> "blob", blob |-> blob, raised |-> FALSE, created |-> {}]
    /\ ldpc = Idle /\ ilv = Idle /\ vox = Idle /\ merkle = Idle
    /\ mani = Idle /\ pipe = Idle

\* unpack_bytes_to_folder(blob, output_dir): the files it creates or
\* overwrites, each as its names from the root of the file system.
UnpackIntoCall ==
    /\ pack.pc = "blob"
    /\ LET r == UnpackBytesToFolder(pack.blob)
       IN  pack' = [pack EXCEPT !.pc = "unpacked", !.raised = r.raised,
                                !.created = { OutputPath(OutputDir, f) :
                                                f \in DOMAIN r.written }]
    /\ UNCHANGED <<ldpc, ilv, vox, merkle, mani, pipe>>

SpecConfine == InitConfine /\ [][UnpackIntoCall]_vars

\* C27: output confinement.  Every file unpack_bytes_to_folder creates or
\* overwrites lies inside output_dir.
C27_OutputConfinement ==
    pack.pc = "unpacked" =>
        \A path \in pack.created :
            /\ Len(path) > Len(OutputDir)
            /\ SubSeq(path, 1, Len(OutputDir)) = OutputDir

\* C28: a missing self-hash is rejected.  Manifest.load raises for a file
\* whose integrity.manifest_hash is absent or empty, or whose integrity block
\* is absent.
C28_MissingHashRejected ==
    (mani.pc = "loaded" /\ ~Truthy(StoredHash(LoadJson(mani.file)))) => mani.raised

\* C29: the success flag is accurate.  decode_hard returns success = true
\* exactly when the n-bit word whose first k bits it returns has zero
\* syndrome under H, and it flips at most max_iter bits.
C29_SuccessFlagAccurate ==
    ldpc.pc = "decoded" =>
        /\ ldpc.success <=> (SumSeq(Syndrome(ldpc.H, ldpc.word)) = 0)
        /\ ldpc.nflips <= ldpc.max_iter
        /\ ldpc.decoded = SubSeq(ldpc.word, 1, ldpc.k)

\* C29, flip budget alone: decode_hard flips at most max_iter bits.
C29_FlipBudget ==
    ldpc.pc = "decoded" => ldpc.nflips <= ldpc.max_iter

\* C29, one direction: success = true only for a zero-syndrome word.
C29_SuccessImpliesValid ==
    (ldpc.pc = "decoded" /\ ldpc.success) => SumSeq(Syndrome(ldpc.H, ldpc.word)) = 0

\* C30: the LDPC record is consistent.  For both profiles the parameters
\* encode_folder writes to the manifest satisfy k = floor(n * rate), with
\* rate equal to the selected profile's ldpc_rate (rates in hundredths).
C30_ConsistentLdpcRecord ==
    pipe.pc \in {"encoded", "decoded"} =>
        LET rec == pipe.enc.manifest.encoding.ecc.ldpc
        IN  /\ rec.rate = ProfileParams(pipe.profile).ldpc_rate
            /\ rec.k = (rec.n * rec.rate) \div 100

\* C30 restricted to profile A, whose ldpc_rate is the codec's default rate.
C30_ProfileARecord ==
    (pipe.pc \in {"encoded", "decoded"} /\ pipe.profile = "A") =>
        LET rec == pipe.enc.manifest.encoding.ecc.ldpc
        IN  /\ rec.rate = PROFILE_A.ldpc_rate
            /\ rec.k = (rec.n * rec.rate) \div 100

=============================================================================
